---------------------------- MODULE Spec2Model ----------------------------
(***************************************************************************)
(* A model of the VectorTile binding of node-mapnik                        *)
(* (src/src/mapnik_vector_tile.cpp): the tile's size configuration, the    *)
(* point-to-geometry hit test and the single-point and batch queries.      *)
(***************************************************************************)
EXTENDS Integers, Sequences, FiniteSets, TLC

VARIABLES
    vt_built,       \* a VectorTile object exists (VectorTile::New succeeded)
    tile_size,      \* tile_->tile_size()
    buffer_size,    \* tile_->buffer_size()
    vt_thrown,      \* the last constructor / setter call threw
    p2p_geom,       \* the geometry handed to path_to_point_distance
    p2p_pt,         \* the point (x, y) handed to path_to_point_distance
    p2p_done,       \* path_to_point_distance has returned
    p2p_out,        \* the p2p_result it returned
    tile,           \* the names of the layers of tile_, in the order of its buffer
    q_pc,           \* "idle", or where the queued query is: "queued", "worked"
    q_call,         \* the arguments of the last accepted query / queryMany call
    q_env,          \* how the reprojection service behaves during that call
    closure,        \* the baton of the queued call
    q_ret,          \* what the last call returned or threw to its caller
    cb,             \* the invocations of the callback of the last call
    c_pc,           \* "idle", or where the queued composite is: "queued", "worked"
    c_target,       \* the source tiles composited into the target tile, in order
    c_args,         \* the arguments of the last composite call, as given
    c_call,         \* what the last accepted composite call hands to _composite
    c_baton,        \* the baton of the queued composite
    c_env,          \* whether the compositing of the last call succeeds
    c_ret,          \* what the last composite call returned or threw to its caller
    c_cb,           \* the invocations of the callback of the last composite call
    c_runs,         \* how many times _composite has run
    c_refs,         \* the references taken with Ref() and not yet given back
    i_arg,          \* the argument of the last call of info
    i_done,         \* info has returned or thrown
    i_thrown,       \* info threw a JS exception
    i_out,          \* the object that info returned
    r_tile,         \* the top-level fields of the buffer of the tile that is read
    r_call,         \* the reader called last and its options argument
    r_done,         \* that reader has returned or thrown
    r_ret,          \* what it returned
    a_built,        \* a VectorTile object exists (the z, x, y part of VectorTile::New passed)
    a_z,            \* tile_->z()
    a_x,            \* tile_->x()
    a_y,            \* tile_->y()
    a_thrown,       \* the last constructor / z, x, y setter call threw
    d_tile,         \* the VectorTile d of the data calls: z, x, y, sizes and the layers of its buffer
    d_calls,        \* the data calls made on d, in call order: arguments, position, baton, outcome
    d_made,         \* the VectorTile objects that layer() has created
    d_refs          \* the Ref() on d taken by queued data calls and not yet given back

tile_vars == <<vt_built, tile_size, buffer_size, vt_thrown>>
p2p_vars == <<p2p_geom, p2p_pt, p2p_done, p2p_out>>
query_vars == <<tile, q_pc, q_call, q_env, closure, q_ret, cb>>

composite_vars == <<c_pc, c_target, c_args, c_call, c_baton, c_env, c_ret, c_cb, c_runs, c_refs>>

info_vars == <<i_arg, i_done, i_thrown, i_out>>

report_vars == <<r_tile, r_call, r_done, r_ret>>

address_vars == <<a_built, a_z, a_x, a_y, a_thrown>>

data_vars == <<d_tile, d_calls, d_made, d_refs>>

vars == <<tile_vars, p2p_vars, query_vars, composite_vars, info_vars, report_vars, address_vars, data_vars>>

(***************************************************************************)
(* 32-bit integers.  The binding converts every numeric argument with      *)
(* Int32Value() and computes its checks in int.                            *)
(***************************************************************************)
INT_MAX == 2147483647
INT_MIN == (-INT_MAX) - 1

\* A JS argument: a number (already converted by Int32Value()), a value
\* that is not a number (IsNumber() is false), or an option that the
\* options object does not have.
Num(v) == [kind |-> "number", v |-> v]
NotNumber == [kind |-> "other", v |-> 0]
Absent == [kind |-> "absent", v |-> 0]
IsNumber(a) == a.kind = "number"

\* A string option: a string, a value that is not a string, or absent
Str(v) == [kind |-> "string", v |-> v]
NotString == [kind |-> "other", v |-> ""]
NoLayer == [kind |-> "absent", v |-> ""]

\* int32 arguments tried by the model: small values, the defaults, and the
\* values around the points where 2 * v leaves the int range.
Int32Samples ==
    { INT_MIN, INT_MIN + 1, (-(INT_MAX \div 2)) - 2, (-(INT_MAX \div 2)) - 1,
      -2049, -2048, -64, -1, 0, 1, 2, 128, 4096,
      INT_MAX \div 2, (INT_MAX \div 2) + 1, INT_MAX - 1, INT_MAX }

\* 2 * v computed in int overflows (undefined behaviour)
TwiceOverflows(v) == v > INT_MAX \div 2 \/ v < (-(INT_MAX \div 2)) - 1

\* a + b computed in int overflows (undefined behaviour)
AddOverflows(a, b) ==
    \/ (b > 0 /\ a > INT_MAX - b)
    \/ (b < 0 /\ a < INT_MIN - b)

\* the mathematical value of ts + 2 * bs is > 0, for ts, bs in the int range
SizeSumPositive(ts, bs) ==
    IF TwiceOverflows(bs) THEN bs > 0
    ELSE IF AddOverflows(ts, 2 * bs) THEN bs > 0
    ELSE ts + 2 * bs > 0

(***************************************************************************)
(* Geometry.  Coordinates are integers of the tile's mercator frame.  A    *)
(* distance is held exactly, as its square in lowest terms n/d; the value  *)
(* -1 of p2p_result ("no hit") is held as -1/1.  Squaring keeps the order  *)
(* of non-negative distances, so every comparison of the code is the same  *)
(* comparison of the squares.                                              *)
(***************************************************************************)
Pt(x, y) == [x |-> x, y |-> y]

RECURSIVE GCD(_, _)
GCD(a, b) == IF b = 0 THEN a ELSE GCD(b, a % b)

Frac(n, d) == LET g == GCD(n, d) IN [n |-> n \div g, d |-> d \div g]

NoDistance == [n |-> -1, d |-> 1]
ZeroDistance == [n |-> 0, d |-> 1]

\* a < b on distances
DistLess(a, b) == a.n * b.d < b.n * a.d
\* a >= 0 on a distance
DistNonNegative(a) == a.n >= 0
\* the squares are compared without the signs
DistWithinSquared(a, tolerance) == a.n <= tolerance * tolerance * a.d

\* a <= tolerance, for a distance a (-1, or the root of a.n / a.d) and a
\* tolerance in mercator units
DistWithin(a, tolerance) ==
    IF a.n < 0 THEN -1 <= tolerance
    ELSE tolerance >= 0 /\ a.n <= tolerance * tolerance * a.d

\* mapnik::distance(x0, y0, x1, y1)
distance(x0, y0, x1, y1) ==
    Frac((x1 - x0) * (x1 - x0) + (y1 - y0) * (y1 - y0), 1)

\* mapnik::point_to_segment_distance(x, y, ax, ay, bx, by): the distance to
\* the nearer end when the foot of the perpendicular is outside the
\* segment, otherwise the distance to the foot.
point_to_segment_distance(x, y, ax, ay, bx, by) ==
    LET len2 == (bx - ax) * (bx - ax) + (by - ay) * (by - ay)
        dot  == (x - ax) * (bx - ax) + (y - ay) * (by - ay)
        ap2  == (x - ax) * (x - ax) + (y - ay) * (y - ay)
    IN  IF len2 = 0 THEN distance(x, y, ax, ay)
        ELSE IF dot < 0 THEN distance(x, y, ax, ay)
        ELSE IF dot > len2 THEN distance(x, y, bx, by)
        ELSE Frac(ap2 * len2 - dot * dot, len2)

\* mapnik::detail::pip(x0, y0, x1, y1, x, y): the edge (x0,y0)-(x1,y1)
\* straddles the horizontal through y and crosses it to the right of x.
\* x < (x1 - x0) * (y - y0) / (y1 - y0) + x0 is compared cross-multiplied.
pip(x0, y0, x1, y1, x, y) ==
    /\ (y1 <= y /\ y < y0) \/ (y0 <= y /\ y < y1)
    /\ IF y1 > y0
       THEN (x - x0) * (y1 - y0) < (x1 - x0) * (y - y0)
       ELSE (x - x0) * (y1 - y0) > (x1 - x0) * (y - y0)

(***************************************************************************)
(* detail::p2p_result and detail::p2p_distance                             *)
(***************************************************************************)
p2p_result == [distance |-> NoDistance, x_hit |-> 0, y_hit |-> 0]

\* `p2p_sub.distance >= 0 && (p2p.distance < 0 || p2p_sub.distance <
\* p2p.distance)`: the sub-result replaces the running result
Closer(p2p_sub, p2p) ==
    /\ DistNonNegative(p2p_sub.distance)
    /\ (~DistNonNegative(p2p.distance) \/ DistLess(p2p_sub.distance, p2p.distance))

\* the running minimum over results[1..i], in order
RECURSIVE MinResult(_, _)
MinResult(results, i) ==
    IF i = 0 THEN p2p_result
    ELSE LET p2p == MinResult(results, i - 1)
         IN  IF Closer(results[i], p2p) THEN results[i] ELSE p2p

p2p_point(geom, x_, y_) ==
    [distance |-> distance(geom.x, geom.y, x_, y_), x_hit |-> geom.x, y_hit |-> geom.y]

p2p_multi_point(geom, x_, y_) ==
    MinResult([i \in 1..Len(geom) |-> p2p_point(geom[i], x_, y_)], Len(geom))

p2p_line_string(geom, x_, y_) ==
    IF Len(geom) > 1
    THEN MinResult([i \in 1..(Len(geom) - 1) |->
                      [distance |-> point_to_segment_distance(x_, y_,
                                        geom[i].x, geom[i].y, geom[i+1].x, geom[i+1].y),
                       x_hit |-> geom[i].x, y_hit |-> geom[i].y]],
                   Len(geom) - 1)
    ELSE p2p_result

p2p_multi_line_string(geom, x_, y_) ==
    MinResult([i \in 1..Len(geom) |-> p2p_line_string(geom[i], x_, y_)], Len(geom))

\* the inner loop of the polygon test: `inside` after the edges
\* ring[1..index], ring[index+1] of one ring, starting from `inside`
RECURSIVE RingToggle(_, _, _, _, _)
RingToggle(ring, index, inside, x_, y_) ==
    IF index = 0 THEN inside
    ELSE LET before == RingToggle(ring, index - 1, inside, x_, y_)
         IN  IF pip(ring[index].x, ring[index].y, ring[index+1].x, ring[index+1].y, x_, y_)
             THEN ~before ELSE before

\* PolygonRings without the return after an exterior ring that does not
\* contain the point
RECURSIVE PolygonRingsNoExteriorReturn(_, _, _, _, _)
PolygonRingsNoExteriorReturn(poly, ring_index, inside, x_, y_) ==
    IF ring_index > Len(poly) THEN inside
    ELSE LET ring == poly[ring_index]
         IN  IF Len(ring) < 4
             THEN IF ring_index = 1 THEN FALSE
                  ELSE PolygonRingsNoExteriorReturn(poly, ring_index + 1, inside, x_, y_)
             ELSE PolygonRingsNoExteriorReturn(poly, ring_index + 1,
                      RingToggle(ring, Len(ring) - 1, inside, x_, y_), x_, y_)

\* PolygonRings with a ring of 3 points taken as a ring
RECURSIVE PolygonRingsThreePoints(_, _, _, _, _)
PolygonRingsThreePoints(poly, ring_index, inside, x_, y_) ==
    IF ring_index > Len(poly) THEN inside
    ELSE LET ring == poly[ring_index]
         IN  IF Len(ring) < 3
             THEN IF ring_index = 1 THEN FALSE
                  ELSE PolygonRingsThreePoints(poly, ring_index + 1, inside, x_, y_)
             ELSE LET now == RingToggle(ring, Len(ring) - 1, inside, x_, y_)
                  IN  IF ring_index = 1 /\ ~now THEN FALSE
                      ELSE PolygonRingsThreePoints(poly, ring_index + 1, now, x_, y_)

\* the outer loop of the polygon test from ring ring_index on: TRUE when
\* the polygon is hit
RECURSIVE PolygonRings(_, _, _, _, _)
PolygonRings(poly, ring_index, inside, x_, y_) ==
    IF ring_index > Len(poly) THEN inside
    ELSE LET ring == poly[ring_index]
         IN  IF Len(ring) < 4
             THEN IF ring_index = 1 THEN FALSE
                  ELSE PolygonRings(poly, ring_index + 1, inside, x_, y_)
             ELSE LET now == RingToggle(ring, Len(ring) - 1, inside, x_, y_)
                  IN  IF ring_index = 1 /\ ~now THEN FALSE
                      ELSE PolygonRings(poly, ring_index + 1, now, x_, y_)

p2p_polygon(poly, x_, y_) ==
    IF PolygonRings(poly, 1, FALSE, x_, y_)
    THEN [p2p_result EXCEPT !.distance = ZeroDistance]
    ELSE p2p_result

p2p_multi_polygon(geom, x_, y_) ==
    MinResult([i \in 1..Len(geom) |-> p2p_polygon(geom[i], x_, y_)], Len(geom))

(***************************************************************************)
(* mapnik::geometry::geometry<double>: a type and its coordinates, held in *)
(* one shape for every type: a sequence of polygons, each a sequence of    *)
(* rings (or lines, or one list of points), each a sequence of points.     *)
(***************************************************************************)
Empty == [type |-> "Empty", c |-> <<>>]
Point(p) == [type |-> "Point", c |-> << << <<p>> >> >>]
MultiPoint(ps) == [type |-> "MultiPoint", c |-> << <<ps>> >>]
LineString(l) == [type |-> "LineString", c |-> << <<l>> >>]
MultiLineString(ls) == [type |-> "MultiLineString", c |-> <<ls>>]
Polygon(rings) == [type |-> "Polygon", c |-> <<rings>>]
MultiPolygon(polys) == [type |-> "MultiPolygon", c |-> polys]

\* path_to_point_distance: apply_visitor(detail::p2p_distance(x, y), geom)
path_to_point_distance(geom, x, y) ==
    CASE geom.type = "Empty"           -> p2p_result
      [] geom.type = "Point"           -> p2p_point(geom.c[1][1][1], x, y)
      [] geom.type = "MultiPoint"      -> p2p_multi_point(geom.c[1][1], x, y)
      [] geom.type = "LineString"      -> p2p_line_string(geom.c[1][1], x, y)
      [] geom.type = "MultiLineString" -> p2p_multi_line_string(geom.c[1], x, y)
      [] geom.type = "Polygon"         -> p2p_polygon(geom.c[1], x, y)
      [] geom.type = "MultiPolygon"    -> p2p_multi_polygon(geom.c, x, y)

(***************************************************************************)
(* The reprojection service mapnik::proj_transform tr(wgs84, merc).  The   *)
(* lon/lat frame is an integer grid and one lon/lat unit is MercScale      *)
(* mercator units; every vertex of a tile is on a grid point, so backward  *)
(* is exact.  Whether a call of the service succeeds is part of q_env:     *)
(* forward fails when fwd_ok is false, backward fails on the point         *)
(* back_fail.                                                              *)
(***************************************************************************)
MercScale == 2

forward(x, y, env) ==
    [ok |-> env.fwd_ok, x |-> x * MercScale, y |-> y * MercScale]

backward(x, y, env) ==
    [ok |-> Pt(x, y) # env.back_fail, x |-> x \div MercScale, y |-> y \div MercScale]

\* the service never fails
NoFailure == [fwd_ok |-> TRUE, back_fail |-> Pt(-1, -1)]

(***************************************************************************)
(* tile_datasource_pbf over one layer: the features whose envelope meets a *)
(* box.  A geometry without a point has no envelope and is not yielded.    *)
(***************************************************************************)
GeomPoints(geom) ==
    UNION { UNION { { geom.c[i][j][k] : k \in 1..Len(geom.c[i][j]) } :
                    j \in 1..Len(geom.c[i]) } : i \in 1..Len(geom.c) }

\* box2d::intersects of the geometry's envelope and the box
EnvelopeMeets(geom, minx, miny, maxx, maxy) ==
    LET ps == GeomPoints(geom)
    IN  /\ ps # {}
        /\ ~ \/ \A q \in ps : q.x > maxx
             \/ \A q \in ps : q.x < minx
             \/ \A q \in ps : q.y > maxy
             \/ \A q \in ps : q.y < miny

\* ds->features_at_point(pt, tolerance): the envelope meets the point's
\* box padded by the tolerance
features_at_point(layer, pt, tolerance) ==
    SelectSeq(layer.features,
              LAMBDA f : EnvelopeMeets(f.geom, pt.x - tolerance, pt.y - tolerance,
                                       pt.x + tolerance, pt.y + tolerance))

\* d->tile_->layer_reader(layer_name, layer_msg): the index of the first
\* layer of that name, 0 when there is none
layer_reader(layers, layer_name) ==
    IF \E i \in 1..Len(layers) : layers[i].name = layer_name
    THEN CHOOSE i \in 1..Len(layers) :
            /\ layers[i].name = layer_name
            /\ \A j \in 1..(i - 1) : layers[j].name # layer_name
    ELSE 0

(***************************************************************************)
(* Sorting.  std::sort(first, last, comp) leaves a permutation in which no *)
(* element is before one that comp puts before it; the order of elements   *)
(* that comp does not order is not specified, so every such permutation is *)
(* an outcome.                                                             *)
(***************************************************************************)
\* operator> of query_result, used by the comparator of _query
query_result_greater(a, b) == DistLess(b.distance, a.distance)

\* the comparator handed to std::sort in _query: [](a, b) { return a > b; }
query_sort_lambda(a, b) == query_result_greater(a, b)

\* VectorTile::_queryManySort
\* the comparison the other way round
_queryManySortGreater(a, b) == DistLess(b.distance, a.distance)

_queryManySort(a, b) == DistLess(a.distance, b.distance)

comp(kind, a, b) ==
    IF kind = "query" THEN query_sort_lambda(a, b) ELSE _queryManySort(a, b)

InsertAt(s, k, e) == SubSeq(s, 1, k - 1) \o <<e>> \o SubSeq(s, k, Len(s))

\* the sorted sequences made of the sorted sequence s and e
SortInsert(kind, s, e) ==
    { InsertAt(s, k, e) : k \in { k \in 1..(Len(s) + 1) :
          /\ (k = 1 \/ ~comp(kind, e, s[k - 1]))
          /\ (k = Len(s) + 1 \/ ~comp(kind, s[k], e)) } }

\* the outcomes of std::sort on arr[1..n]
RECURSIVE std_sort(_, _, _)
std_sort(kind, arr, n) ==
    IF n = 0 THEN { <<>> }
    ELSE UNION { SortInsert(kind, s, arr[n]) : s \in std_sort(kind, arr, n - 1) }

(***************************************************************************)
(* VectorTile::_query                                                      *)
(***************************************************************************)
ReprojectError == "could not reproject lon/lat to mercator"

Ok(arr) == [error |-> FALSE, error_name |-> "", arr |-> arr]
Threw(what) == [error |-> TRUE, error_name |-> what, arr |-> <<>>]

\* the test without its upper bound
RetainedNoUpperBound(p2p, tolerance) ==
    DistNonNegative(p2p.distance)

\* the test without its lower bound
RetainedWithinOnly(p2p, tolerance) ==
    DistWithin(p2p.distance, tolerance)

\* the test with == for <=
RetainedExactly(p2p, tolerance) ==
    DistNonNegative(p2p.distance) /\ DistWithin(p2p.distance, tolerance)
        /\ ~DistLess(p2p.distance, Frac(tolerance * tolerance, 1))

\* `p2p.distance >= 0 && p2p.distance <= tolerance`
Retained(p2p, tolerance) ==
    DistNonNegative(p2p.distance) /\ DistWithin(p2p.distance, tolerance)

\* res with the mercator hit point
query_resultMercatorHit(p2p, back, layer, feature) ==
    [x_hit |-> p2p.x_hit, y_hit |-> p2p.y_hit, distance |-> p2p.distance,
     layer |-> layer, feature |-> feature.id]

\* query_result res as it is pushed: the hit point that backward left in
\* x_hit, y_hit, and p2p.distance
query_result(p2p, back, layer, feature) ==
    [x_hit |-> back.x, y_hit |-> back.y, distance |-> p2p.distance,
     layer |-> layer, feature |-> feature.id]

\* the loop when a failed backward only skips the feature
RECURSIVE ScanFeaturesSkipping(_, _, _, _, _, _, _)
ScanFeaturesSkipping(fs, n, layer, x, y, tolerance, env) ==
    IF n = 0 THEN Ok(<<>>)
    ELSE LET before == ScanFeaturesSkipping(fs, n - 1, layer, x, y, tolerance, env)
             p2p    == path_to_point_distance(fs[n].geom, x, y)
             back   == backward(p2p.x_hit, p2p.y_hit, env)
         IN  IF before.error THEN before
             ELSE IF ~back.ok THEN before
             ELSE IF Retained(p2p, tolerance)
             THEN Ok(Append(before.arr, query_result(p2p, back, layer, fs[n])))
             ELSE before

\* the `while ((feature = fs->next()))` loop over the features fs[1..n]:
\* the results pushed, or the exception of a failed backward
RECURSIVE ScanFeatures(_, _, _, _, _, _, _)
ScanFeatures(fs, n, layer, x, y, tolerance, env) ==
    IF n = 0 THEN Ok(<<>>)
    ELSE LET before == ScanFeatures(fs, n - 1, layer, x, y, tolerance, env)
             p2p    == path_to_point_distance(fs[n].geom, x, y)
             back   == backward(p2p.x_hit, p2p.y_hit, env)
         IN  IF before.error THEN before
             ELSE IF ~back.ok THEN Threw(ReprojectError)
             ELSE IF Retained(p2p, tolerance)
             THEN Ok(Append(before.arr, query_result(p2p, back, layer, fs[n])))
             ELSE before

\* the `while (item.next(LAYERS))` loop over the layers layers[1..n]
RECURSIVE ScanAllLayers(_, _, _, _, _, _)
ScanAllLayers(layers, n, x, y, tolerance, env) ==
    IF n = 0 THEN Ok(<<>>)
    ELSE LET before == ScanAllLayers(layers, n - 1, x, y, tolerance, env)
             fs     == features_at_point(layers[n], Pt(x, y), tolerance)
             this   == ScanFeatures(fs, Len(fs), layers[n].name, x, y, tolerance, env)
         IN  IF before.error THEN before
             ELSE IF this.error THEN this
             ELSE Ok(before.arr \o this.arr)

\* the branch `if (!layer_name.empty())`
ScanNamedLayer(layers, layer_name, x, y, tolerance, env) ==
    LET i == layer_reader(layers, layer_name)
    IN  IF i = 0 THEN Ok(<<>>)
        ELSE LET fs == features_at_point(layers[i], Pt(x, y), tolerance)
             IN  ScanFeatures(fs, Len(fs), layer_name, x, y, tolerance, env)

\* _query up to the sort: arr as the scan leaves it
QueryScan(layers, lon, lat, tolerance, layer_name, env) ==
    IF layers = <<>> THEN Ok(<<>>)
    ELSE LET pt == forward(lon, lat, env)
         IN  IF ~pt.ok THEN Threw(ReprojectError)
             ELSE IF layer_name # ""
             THEN ScanNamedLayer(layers, layer_name, pt.x, pt.y, tolerance, env)
             ELSE ScanAllLayers(layers, Len(layers), pt.x, pt.y, tolerance, env)

\* the outcomes of _query: the exception, or arr sorted
_query(layers, lon, lat, tolerance, layer_name, env) ==
    LET scan == QueryScan(layers, lon, lat, tolerance, layer_name, env)
    IN  IF scan.error THEN { scan }
        ELSE { Ok(arr) : arr \in std_sort("query", scan.arr, Len(scan.arr)) }

(***************************************************************************)
(* VectorTile::_queryMany.  features and hits are std::map: functions on   *)
(* the keys they hold.                                                     *)
(***************************************************************************)
EmptyMap == [k \in {} |-> 0]
Min(S) == CHOOSE a \in S : \A b \in S : a <= b
Max(S) == CHOOSE a \in S : \A b \in S : a >= b

LayerNotFound == "Could not find layer in vector tile"

\* the loop `for (p = 0; p < query.size(); ++p)` that reprojects the points
\* query[1..n]: the mercator points, or the exception of a failed forward
RECURSIVE ForwardPoints(_, _, _)
ForwardPoints(pts, n, env) ==
    IF n = 0 THEN Ok(<<>>)
    ELSE LET before == ForwardPoints(pts, n - 1, env)
             pt     == forward(pts[n].lon, pts[n].lat, env)
         IN  IF before.error THEN before
             ELSE IF ~pt.ok THEN Threw(ReprojectError)
             ELSE Ok(Append(before.arr, Pt(pt.x, pt.y)))

\* bbox after expand_to_include of every point and pad(tolerance); a
\* default box2d is (0, 0, -1, -1)
QueryBox(points, tolerance) ==
    IF points = <<>>
    THEN [minx |-> 0 - tolerance, miny |-> 0 - tolerance,
          maxx |-> (-1) + tolerance, maxy |-> (-1) + tolerance]
    ELSE [minx |-> Min({ points[i].x : i \in 1..Len(points) }) - tolerance,
          miny |-> Min({ points[i].y : i \in 1..Len(points) }) - tolerance,
          maxx |-> Max({ points[i].x : i \in 1..Len(points) }) + tolerance,
          maxy |-> Max({ points[i].y : i \in 1..Len(points) }) + tolerance]

\* ds->features(q): the envelope meets the query's box
features(layer, bbox) ==
    SelectSeq(layer.features,
              LAMBDA f : EnvelopeMeets(f.geom, bbox.minx, bbox.miny, bbox.maxx, bbox.maxy))

\* the loop over the points points[1..n] for one feature, numbered idx:
\* the maps after it.  The point points[n] has the key n - 1.
RECURSIVE HitPoints(_, _, _, _, _, _, _)
HitPoints(acc, feature, idx, layer, points, n, tolerance) ==
    IF n = 0 THEN acc
    ELSE LET before == HitPoints(acc, feature, idx, layer, points, n - 1, tolerance)
             p      == n - 1
             p2p    == path_to_point_distance(feature.geom, points[n].x, points[n].y)
             hit    == [distance |-> p2p.distance, feature_id |-> idx]
             res    == [feature |-> feature.id, distance |-> ZeroDistance, layer |-> layer]
         IN  IF Retained(p2p, tolerance)
             THEN [has_hit  |-> TRUE,
                   features |-> IF idx \in DOMAIN before.features
                                THEN before.features
                                ELSE (idx :> res) @@ before.features,
                   hits     |-> IF p \in DOMAIN before.hits
                                THEN [before.hits EXCEPT ![p] = Append(@, hit)]
                                ELSE (p :> <<hit>>) @@ before.hits]
             ELSE before

\* the loop when idx counts every feature
RECURSIVE HitFeaturesCountingAll(_, _, _, _, _)
HitFeaturesCountingAll(fs, n, layer, points, tolerance) ==
    IF n = 0 THEN [idx |-> 0, features |-> EmptyMap, hits |-> EmptyMap]
    ELSE LET before == HitFeaturesCountingAll(fs, n - 1, layer, points, tolerance)
             this   == HitPoints([has_hit |-> FALSE, features |-> before.features,
                                  hits |-> before.hits],
                                 fs[n], before.idx, layer, points, Len(points), tolerance)
         IN  [idx      |-> before.idx + 1,
              features |-> this.features,
              hits     |-> this.hits]

\* the `while ((feature = fs->next()))` loop over the features fs[1..n]
RECURSIVE HitFeatures(_, _, _, _, _)
HitFeatures(fs, n, layer, points, tolerance) ==
    IF n = 0 THEN [idx |-> 0, features |-> EmptyMap, hits |-> EmptyMap]
    ELSE LET before == HitFeatures(fs, n - 1, layer, points, tolerance)
             this   == HitPoints([has_hit |-> FALSE, features |-> before.features,
                                  hits |-> before.hits],
                                 fs[n], before.idx, layer, points, Len(points), tolerance)
         IN  [idx      |-> IF this.has_hit THEN before.idx + 1 ELSE before.idx,
              features |-> this.features,
              hits     |-> this.hits]

\* `for (auto & hit : hits) std::sort(..., _queryManySort)` over the groups
\* of the keys in keys: every outcome
RECURSIVE SortGroups(_, _)
SortGroups(hits, keys) ==
    IF keys = {} THEN { EmptyMap }
    ELSE LET k == Min(keys)
         IN  { (k :> s) @@ rest :
                 s \in std_sort("queryMany", hits[k], Len(hits[k])),
                 rest \in SortGroups(hits, keys \ {k}) }

ManyOk(features_, hits) ==
    [error |-> FALSE, error_name |-> "", features |-> features_, hits |-> hits]
ManyThrew(what) ==
    [error |-> TRUE, error_name |-> what, features |-> EmptyMap, hits |-> EmptyMap]

\* the outcomes of _queryMany: the exception, or result
_queryMany(layers, query_, tolerance, layer_name, env) ==
    LET i == layer_reader(layers, layer_name)
    IN  IF i = 0 THEN { ManyThrew(LayerNotFound) }
        ELSE LET points == ForwardPoints(query_, Len(query_), env)
             IN  IF points.error THEN { ManyThrew(ReprojectError) }
                 ELSE LET fs   == features(layers[i], QueryBox(points.arr, tolerance))
                          scan == HitFeatures(fs, Len(fs), layers[i].name,
                                              points.arr, tolerance)
                      IN  { ManyOk(scan.features, hits) :
                              hits \in SortGroups(scan.hits, DOMAIN scan.hits) }

\* A JS array made by Array::New(env, size) and Set(key, value) for every
\* key of a map: its length and the slots that were set.
JsArray(size, map) ==
    [length |-> IF DOMAIN map = {} THEN size
                ELSE IF Max(DOMAIN map) + 1 > size THEN Max(DOMAIN map) + 1 ELSE size,
     at     |-> map]

\* VectorTile::_queryManyResultToV8
_queryManyResultToV8(result) ==
    [features |-> JsArray(Cardinality(DOMAIN result.features),
                          [k \in DOMAIN result.features |->
                             [feature |-> result.features[k].feature,
                              layer   |-> result.features[k].layer]]),
     hits     |-> JsArray(Cardinality(DOMAIN result.hits), result.hits)]

(***************************************************************************)
(* The geometries the hit test is applied to on its own: polygons and      *)
(* multi-polygons built from a catalogue of rings, at every grid point.    *)
(***************************************************************************)
GridMax == 5
MaxRings == 3

Grid == 0..GridMax
GridPoints == { Pt(x, y) : x, y \in Grid }

\* the closed ring of the rectangle r = [x0, y0, x1, y1]
RectRing(r) ==
    << Pt(r.x0, r.y0), Pt(r.x1, r.y0), Pt(r.x1, r.y1), Pt(r.x0, r.y1), Pt(r.x0, r.y0) >>
Rect(x0, y0, x1, y1) == [x0 |-> x0, y0 |-> y0, x1 |-> x1, y1 |-> y1]

OuterRect == Rect(0, 0, GridMax, GridMax)
HoleRect == Rect(2, 2, 4, 4)
SideRect == Rect(0, 1, 2, 3)
Rects == { OuterRect, HoleRect, SideRect }

Rings ==
    { RectRing(r) : r \in Rects } \cup
    { << Pt(0, 0), Pt(4, 0), Pt(0, 4), Pt(0, 0) >>,     \* a triangle
      << Pt(3, 0), Pt(3, 4), Pt(4, 4) >>,               \* 3 points
      << Pt(1, 0), Pt(1, 4) >>,                         \* 2 points
      << >> }                                           \* no point

SeqsUpTo(S, n) == UNION { [1..k -> S] : k \in 1..n }

P2PPolygons == SeqsUpTo(Rings, MaxRings)
P2PGeoms ==
    { Polygon(rings) : rings \in P2PPolygons } \cup
    { MultiPolygon(<<a, b>>) : a, b \in SeqsUpTo(Rings, 1) }

(***************************************************************************)
(* The tiles queried: up to MaxLayers layers of a catalogue, in any order. *)
(* Vertices are grid points of the lon/lat frame, in mercator units.       *)
(***************************************************************************)
LonLatMax == 3
MaxTolerance == 2
MaxLayers == 2

M(x, y) == Pt(x * MercScale, y * MercScale)
MRing(ring) == [i \in 1..Len(ring) |-> M(ring[i].x, ring[i].y)]

Feature(id, geom) == [id |-> id, geom |-> geom]

PointsLayer ==
    [name |-> "points",
     features |-> << Feature(1, Point(M(3, 3))),
                     Feature(2, MultiPoint(<<M(0, 0), M(4, 4)>>)),
                     Feature(3, Point(M(1, 1))),
                     Feature(4, Empty),
                     Feature(5, Point(M(1, 1))) >>]

LinesLayer ==
    [name |-> "lines",
     features |-> << Feature(6, LineString(<<M(0, 2), M(4, 2)>>)),
                     Feature(7, LineString(<<M(0, 0), M(2, 4), M(4, 4)>>)),
                     Feature(8, MultiLineString(<< <<M(4, 0), M(4, 3)>>,
                                                    <<M(0, 4), M(1, 4)>> >>)),
                     Feature(9, LineString(<<M(2, 2)>>)) >>]

PolygonsLayer ==
    [name |-> "polygons",
     features |-> << Feature(10, Polygon(<<MRing(RectRing(OuterRect)),
                                            MRing(RectRing(HoleRect))>>)),
                     Feature(11, Polygon(<<MRing(RectRing(SideRect))>>)),
                     Feature(12, Polygon(<< <<M(3, 0), M(3, 4), M(4, 4)>> >>)),
                     Feature(13, MultiPolygon(<< <<MRing(RectRing(HoleRect))>>,
                                                 << <<M(0, 0), M(4, 0)>> >> >>)) >>]

LayerCatalogue == { PointsLayer, LinesLayer, PolygonsLayer }

\* the data of the layer of that name
LayerData(name) == CHOOSE l \in LayerCatalogue : l.name = name

\* the layers of a tile, given by the names of its layers
Layers(names) == [i \in 1..Len(names) |-> LayerData(names[i])]

Tiles ==
    { <<>> } \cup
    { names \in SeqsUpTo({ l.name : l \in LayerCatalogue }, MaxLayers) :
        \A i, j \in 1..Len(names) : i # j => names[i] # names[j] }

LonLat == 0..LonLatMax
Tolerances == (-1)..MaxTolerance
LayerNames == { l.name : l \in LayerCatalogue } \cup { "missing" }

\* how the reprojection service behaves during a call: it works, forward
\* fails, or backward fails on one point
Envs ==
    { NoFailure, [NoFailure EXCEPT !.fwd_ok = FALSE] } \cup
    { [NoFailure EXCEPT !.back_fail = q] : q \in { Pt(0, 0), M(1, 1) } }

\* the argument lists query is called with: the well-formed ones, and one
\* of each kind that the handler rejects
QueryArgs ==
    { [lon |-> Num(x), lat |-> Num(y), options |-> "object", tolerance |-> Num(t),
       layer |-> l, callback |-> c] :
        x \in LonLat, y \in LonLat, t \in Tolerances,
        l \in { Str(n) : n \in LayerNames } \cup { NoLayer }, c \in BOOLEAN } \cup
    { [lon |-> Num(x), lat |-> Num(y), options |-> "absent", tolerance |-> Absent,
       layer |-> NoLayer, callback |-> c] : x \in LonLat, y \in LonLat, c \in BOOLEAN } \cup
    { [lon |-> NotNumber, lat |-> Num(0), options |-> "absent", tolerance |-> Absent,
       layer |-> NoLayer, callback |-> FALSE],
      [lon |-> Num(0), lat |-> NotNumber, options |-> "absent", tolerance |-> Absent,
       layer |-> NoLayer, callback |-> FALSE],
      [lon |-> Num(0), lat |-> Num(0), options |-> "other", tolerance |-> Absent,
       layer |-> NoLayer, callback |-> FALSE],
      [lon |-> Num(0), lat |-> Num(0), options |-> "object", tolerance |-> NotNumber,
       layer |-> NoLayer, callback |-> TRUE],
      [lon |-> Num(0), lat |-> Num(0), options |-> "object", tolerance |-> Num(1),
       layer |-> NotString, callback |-> TRUE] }

(***************************************************************************)
(* The calls.  A call's arguments are held once the handler has accepted   *)
(* them; the baton holds what the work function leaves in it.              *)
(***************************************************************************)
NoManyResult == [features |-> EmptyMap, hits |-> EmptyMap]
NoManyObject == _queryManyResultToV8(NoManyResult)
NoCall ==
    [op |-> "none", lon |-> 0, lat |-> 0, points |-> <<>>, tolerance |-> 0,
     layer_name |-> "", async |-> FALSE]
NoClosure == [error |-> FALSE, error_name |-> "", result |-> <<>>, many |-> NoManyResult]
NoReturn == [thrown |-> FALSE, error |-> "", result |-> <<>>, many |-> NoManyObject]
NoCallback == [calls |-> 0, nargs |-> 0, err |-> "", result |-> <<>>, many |-> NoManyObject]

\* no query made yet, on a tile without data
QueryIdle ==
    /\ tile = <<>>
    /\ q_pc = "idle"
    /\ q_call = NoCall
    /\ q_env = NoFailure
    /\ closure = NoClosure
    /\ q_ret = NoReturn
    /\ cb = NoCallback

\* the handler throws before it reads the tile
Rejects(what) ==
    /\ q_call' = NoCall
    /\ q_env' = NoFailure
    /\ q_ret' = [NoReturn EXCEPT !.thrown = TRUE, !.error = what]
    /\ closure' = NoClosure
    /\ cb' = NoCallback
    /\ UNCHANGED <<tile, q_pc>>

(***************************************************************************)
(* VectorTile::query.  args: lon, lat (numbers or not), options ("absent", *)
(* "object" or "other"), the options tolerance and layer, and whether the  *)
(* last argument is a function.                                            *)
(***************************************************************************)
query(args, env) ==
    /\ q_pc = "idle"
    /\ IF ~IsNumber(args.lon) \/ ~IsNumber(args.lat)
       THEN Rejects("expects lon,lat info")
       ELSE IF args.options = "other"
       THEN Rejects("optional third argument must be an options object")
       ELSE IF args.options = "object" /\ args.tolerance.kind = "other"
       THEN Rejects("tolerance value must be a number")
       ELSE IF args.options = "object" /\ args.layer.kind = "other"
       THEN Rejects("layer value must be a string")
       ELSE
         LET tolerance  == IF args.options = "object" /\ IsNumber(args.tolerance)
                           THEN args.tolerance.v ELSE 0
             layer_name == IF args.options = "object" /\ args.layer.kind = "string"
                           THEN args.layer.v ELSE ""
             call == [op |-> "query", lon |-> args.lon.v, lat |-> args.lat.v,
                      points |-> <<>>, tolerance |-> tolerance,
                      layer_name |-> layer_name, async |-> args.callback]
         IN  /\ q_call' = call
             /\ q_env' = env
             /\ cb' = NoCallback
             /\ UNCHANGED tile
             /\ IF ~args.callback
                THEN \E out \in _query(Layers(tile), call.lon, call.lat, tolerance, layer_name, env) :
                        /\ q_ret' = [NoReturn EXCEPT !.thrown = out.error,
                                                     !.error = out.error_name,
                                                     !.result = out.arr]
                        /\ closure' = NoClosure
                        /\ q_pc' = "idle"
                ELSE /\ closure' = NoClosure
                     /\ q_ret' = NoReturn
                     /\ q_pc' = "queued"

\* VectorTile::EIO_Query, on a thread of the pool
EIO_Query ==
    /\ q_pc = "queued"
    /\ q_call.op = "query"
    /\ \E out \in _query(Layers(tile), q_call.lon, q_call.lat, q_call.tolerance,
                         q_call.layer_name, q_env) :
          closure' = [closure EXCEPT !.error = out.error,
                                     !.error_name = out.error_name,
                                     !.result = out.arr]
    /\ q_pc' = "worked"
    /\ UNCHANGED <<tile, q_call, q_env, q_ret, cb>>

\* VectorTile::EIO_AfterQuery, back on the main thread
EIO_AfterQuery ==
    /\ q_pc = "worked"
    /\ q_call.op = "query"
    /\ IF closure.error
       THEN cb' = [NoCallback EXCEPT !.calls = cb.calls + 1, !.nargs = 1,
                                     !.err = closure.error_name]
       ELSE cb' = [NoCallback EXCEPT !.calls = cb.calls + 1, !.nargs = 2,
                                     !.result = closure.result]
    /\ closure' = NoClosure
    /\ q_pc' = "idle"
    /\ UNCHANGED <<tile, q_call, q_env, q_ret>>

(***************************************************************************)
(* VectorTile::queryMany.  args: the first argument ("array", "other", an  *)
(* array with an item that is not an array: "item", or with a pair that    *)
(* has a non-number: "pair"), the lon/lat pairs, options ("object" or      *)
(* "other"), the options tolerance and layer, and whether the last         *)
(* argument is a function.  The option fields only selects the attributes  *)
(* that the features carry, which the model does not hold.                 *)
(***************************************************************************)
queryMany(args, env) ==
    /\ q_pc = "idle"
    /\ IF args.array = "other"
       THEN Rejects("expects lon,lat info + object with layer property referring to a layer name")
       ELSE IF args.array = "item"
       THEN Rejects("non-array item encountered")
       ELSE IF args.array = "pair"
       THEN Rejects("lng lat must be numbers")
       ELSE IF args.options = "other"
       THEN Rejects("optional second argument must be an options object")
       ELSE IF args.tolerance.kind = "other"
       THEN Rejects("tolerance value must be a number")
       ELSE IF args.layer.kind = "other"
       THEN Rejects("layer value must be a string")
       ELSE
         LET tolerance  == IF IsNumber(args.tolerance) THEN args.tolerance.v ELSE 0
             layer_name == IF args.layer.kind = "string" THEN args.layer.v ELSE ""
             call == [op |-> "queryMany", lon |-> 0, lat |-> 0,
                      points |-> args.points, tolerance |-> tolerance,
                      layer_name |-> layer_name, async |-> args.callback]
         IN  IF layer_name = ""
             THEN Rejects("options.layer is required")
             ELSE
               /\ q_call' = call
               /\ q_env' = env
               /\ cb' = NoCallback
               /\ UNCHANGED tile
               /\ IF ~args.callback
                  THEN \E out \in _queryMany(Layers(tile), args.points, tolerance,
                                             layer_name, env) :
                          /\ q_ret' = [NoReturn EXCEPT
                                         !.thrown = out.error,
                                         !.error = out.error_name,
                                         !.many = IF out.error THEN NoManyObject
                                                  ELSE _queryManyResultToV8(out)]
                          /\ closure' = NoClosure
                          /\ q_pc' = "idle"
                  ELSE /\ closure' = NoClosure
                       /\ q_ret' = NoReturn
                       /\ q_pc' = "queued"

\* VectorTile::EIO_QueryMany, on a thread of the pool
EIO_QueryMany ==
    /\ q_pc = "queued"
    /\ q_call.op = "queryMany"
    /\ \E out \in _queryMany(Layers(tile), q_call.points, q_call.tolerance,
                             q_call.layer_name, q_env) :
          closure' = [closure EXCEPT !.error = out.error,
                                     !.error_name = out.error_name,
                                     !.many = [features |-> out.features,
                                               hits |-> out.hits]]
    /\ q_pc' = "worked"
    /\ UNCHANGED <<tile, q_call, q_env, q_ret, cb>>

\* VectorTile::EIO_AfterQueryMany, back on the main thread
EIO_AfterQueryMany ==
    /\ q_pc = "worked"
    /\ q_call.op = "queryMany"
    /\ IF closure.error
       THEN cb' = [NoCallback EXCEPT !.calls = cb.calls + 1, !.nargs = 1,
                                     !.err = closure.error_name]
       ELSE cb' = [NoCallback EXCEPT !.calls = cb.calls + 1, !.nargs = 2,
                                     !.many = _queryManyResultToV8(closure.many)]
    /\ closure' = NoClosure
    /\ q_pc' = "idle"
    /\ UNCHANGED <<tile, q_call, q_env, q_ret>>

(***************************************************************************)
(* VectorTile::composite and VectorTile::compositeSync.  A double option   *)
(* is held in tenths.  An option that is not a number is absent ("absent"),*)
(* of the type the handler asks for ("ok") or not ("bad"); max_extent is   *)
(* also an array that is not of 4 items ("short") or not of numbers        *)
(* ("not-numbers"), image_scaling also a string that names no scaling      *)
(* method ("unknown").                                                     *)
(***************************************************************************)
polygon_fill_type_max == 4

\* static_cast<polygon_fill_type>(Int32Value()): the enum is held in 8 bits
polygon_fill_type(n) == n % 256

\* std::launch::async, std::launch::deferred and both
launch_async == 1
launch_deferred == 2
ValidLaunch == { launch_async, launch_deferred, 3 }

NoOptions ==
    [area_threshold |-> Absent, simplify_distance |-> Absent,
     strictly_simple |-> "absent", multi_polygon_union |-> "absent",
     fill_type |-> Absent, threading_mode |-> Absent, scale |-> Absent,
     scale_denominator |-> Absent, offset_x |-> Absent, offset_y |-> Absent,
     reencode |-> "absent", max_extent |-> "absent", process_all_rings |-> "absent",
     image_scaling |-> "absent", image_format |-> "absent"]

\* one test of the handler: whether it throws, and what
Check(bad, what) == [bad |-> bad, what |-> what]

\* the test of the type alone
NumberChecksTypeOnly(opt, not_number, negative) ==
    << Check(opt.kind = "other", not_number) >>

\* the tests of a double option that must not be below zero
NumberChecks(opt, not_number, negative) ==
    << Check(opt.kind = "other", not_number),
       Check(IsNumber(opt) /\ opt.v < 0, negative) >>

\* the error of the first test that throws, "" when none does
RECURSIVE FirstError(_, _)
FirstError(checks, n) ==
    IF n > Len(checks) THEN ""
    ELSE IF checks[n].bad THEN checks[n].what
    ELSE FirstError(checks, n + 1)

\* the tests that follow the numeric ones, the same in both handlers
TrailingChecks(o) ==
    << Check(o.offset_x.kind = "other", "optional arg 'offset_x' must be a number"),
       Check(o.offset_y.kind = "other", "optional arg 'offset_y' must be a number"),
       Check(o.reencode = "bad", "reencode value must be a boolean"),
       Check(o.max_extent \in { "bad", "short" },
             "max_extent value must be an array of [minx,miny,maxx,maxy]"),
       Check(o.max_extent = "not-numbers",
             "max_extent [minx,miny,maxx,maxy] must be numbers"),
       Check(o.process_all_rings = "bad", "option 'process_all_rings' must be a boolean"),
       Check(o.image_scaling = "bad", "option 'image_scaling' must be a string"),
       Check(o.image_scaling = "unknown",
             "option 'image_scaling' must be a string and a valid scaling method (e.g 'bilinear')"),
       Check(o.image_format = "bad", "option 'image_format' must be a string") >>

FillTypeChecks(o) ==
    << Check(o.fill_type.kind = "other", "optional arg 'fill_type' must be a number"),
       Check(IsNumber(o.fill_type)
                 /\ polygon_fill_type(o.fill_type.v) >= polygon_fill_type_max,
             "optional arg 'fill_type' out of possible range") >>

ThreadingChecks(o, invalid) ==
    << Check(o.threading_mode.kind = "other",
             "option 'threading_mode' must be an unsigned integer"),
       Check(IsNumber(o.threading_mode) /\ o.threading_mode.v \notin ValidLaunch, invalid) >>

\* the option tests of _compositeSync, in its order
SyncOptionChecks(o) ==
    NumberChecks(o.area_threshold,
                 "option 'area_threshold' must be an floating point number",
                 "option 'area_threshold' can not be negative") \o
    NumberChecks(o.simplify_distance,
                 "option 'simplify_distance' must be an floating point number",
                 "option 'simplify_distance' can not be negative") \o
    << Check(o.strictly_simple = "bad", "option 'strictly_simple' must be a boolean"),
       Check(o.multi_polygon_union = "bad", "option 'multi_polygon_union' must be a boolean") >> \o
    FillTypeChecks(o) \o
    ThreadingChecks(o, "optional arg 'threading_mode' is invalid") \o
    << Check(o.scale.kind = "other", "optional arg 'scale' must be a number"),
       Check(IsNumber(o.scale) /\ o.scale.v <= 0,
             "optional arg 'scale' must be greater then zero") >> \o
    NumberChecks(o.scale_denominator,
                 "optional arg 'scale_denominator' must be a number",
                 "optional arg 'scale_denominator' must be non negative number") \o
    TrailingChecks(o)

\* the option tests of composite with a callback, in its order
AsyncOptionChecks(o) ==
    NumberChecks(o.area_threshold,
                 "option 'area_threshold' must be a number",
                 "option 'area_threshold' can not be negative") \o
    << Check(o.strictly_simple = "bad", "strictly_simple value must be a boolean"),
       Check(o.multi_polygon_union = "bad", "multi_polygon_union value must be a boolean") >> \o
    FillTypeChecks(o) \o
    ThreadingChecks(o, "optional arg 'threading_mode' is not a valid value") \o
    NumberChecks(o.simplify_distance,
                 "option 'simplify_distance' must be an floating point number",
                 "option 'simplify_distance' can not be negative") \o
    << Check(o.scale.kind = "other", "optional arg 'scale' must be a number"),
       Check(IsNumber(o.scale) /\ o.scale.v < 0, "option 'scale' can not be negative") >> \o
    NumberChecks(o.scale_denominator,
                 "optional arg 'scale_denominator' must be a number",
                 "option 'scale_denominator' can not be negative") \o
    TrailingChecks(o)

\* an item of the array of tiles: a VectorTile, an object that is none, or
\* a value that is no object
Vt(name) == [kind |-> "VectorTile", name |-> name]
NotTile == [kind |-> "object", name |-> ""]
NotObject == [kind |-> "other", name |-> ""]

\* the index of the first item that is not a VectorTile, 0 when all are
FirstNotTile(vtiles) ==
    IF \E j \in 1..Len(vtiles) : vtiles[j].kind # "VectorTile"
    THEN Min({ j \in 1..Len(vtiles) : vtiles[j].kind # "VectorTile" })
    ELSE 0

\* the values that the handler hands to _composite: an option that is
\* given, or its default (doubles in tenths)
Given(opt, default) == IF IsNumber(opt) THEN opt.v ELSE default
Settings(o) ==
    [scale_factor      |-> Given(o.scale, 10),
     area_threshold    |-> Given(o.area_threshold, 1),
     simplify_distance |-> Given(o.simplify_distance, 0),
     scale_denominator |-> Given(o.scale_denominator, 0),
     fill_type         |-> IF IsNumber(o.fill_type)
                           THEN polygon_fill_type(o.fill_type.v) ELSE 2,
     threading_mode    |-> Given(o.threading_mode, launch_deferred)]

CompositeFailed == "composite failed"

\* _composite: mapnik::vector_tile_impl::composite adds the data of the
\* tiles to the target, or throws
_composite(target, vtiles, env) ==
    IF env.composite_ok
    THEN [error |-> FALSE, error_name |-> "",
          target |-> target \o [j \in 1..Len(vtiles) |-> vtiles[j].name]]
    ELSE [error |-> TRUE, error_name |-> CompositeFailed, target |-> target]

NoBaton == [vtiles |-> <<>>, settings |-> Settings(NoOptions), error |-> FALSE,
            error_name |-> ""]
NoCompositeArgs ==
    [array |-> "absent", vtiles |-> <<>>, options |-> "absent", opts |-> NoOptions,
     callback |-> FALSE]
NoCompositeCall == [op |-> "none", vtiles |-> <<>>, settings |-> Settings(NoOptions)]
NoCompositeReturn == [thrown |-> FALSE, error |-> ""]
NoCompositeCallback == [calls |-> 0, nargs |-> 0, err |-> ""]
NoRefs == [d |-> 0, vtiles |-> 0]

\* no composite made yet
CompositeIdle ==
    /\ c_pc = "idle"
    /\ c_target = <<>>
    /\ c_args = NoCompositeArgs
    /\ c_call = NoCompositeCall
    /\ c_baton = NoBaton
    /\ c_env = [composite_ok |-> TRUE]
    /\ c_ret = NoCompositeReturn
    /\ c_cb = NoCompositeCallback
    /\ c_runs = 0
    /\ c_refs = NoRefs

\* the handler throws a JS exception and returns
CompositeRejects(what) ==
    /\ c_ret' = [thrown |-> TRUE, error |-> what]
    /\ UNCHANGED <<c_pc, c_target, c_call, c_baton, c_cb, c_runs, c_refs>>

\* VectorTile::_compositeSync.  args: the first argument ("array", "other"
\* or "absent"), the items of the array, the second argument ("object",
\* "other" or "absent") and its options.
_compositeSync(args, env) ==
    /\ c_pc = "idle"
    /\ c_env' = env
    /\ c_args' = args
    /\ IF args.array # "array"
       THEN CompositeRejects("must provide an array of VectorTile objects and an optional options object")
       ELSE IF Len(args.vtiles) < 1
       THEN CompositeRejects("must provide an array with at least one VectorTile object and an optional options object")
       ELSE IF args.options = "other"
       THEN CompositeRejects("optional second argument must be an options object")
       ELSE
         LET o      == IF args.options = "object" THEN args.opts ELSE NoOptions
             checks == SyncOptionChecks(o)
             what   == FirstError(checks, 1)
         IN  IF what # ""
             THEN CompositeRejects(what)
             ELSE IF FirstNotTile(args.vtiles) # 0
             THEN CompositeRejects("must provide an array of VectorTile objects")
             ELSE LET out == _composite(c_target, args.vtiles, env)
                  IN  /\ c_target' = out.target
                      /\ c_runs' = c_runs + 1
                      /\ c_ret' = [thrown |-> out.error, error |-> out.error_name]
                      /\ c_call' = [op |-> "sync", vtiles |-> args.vtiles,
                                    settings |-> Settings(o)]
                      /\ UNCHANGED <<c_pc, c_baton, c_cb, c_refs>>

\* VectorTile::compositeSync
compositeSync(args, env) == _compositeSync(args, env)

\* VectorTile::composite.  args.callback: the last argument is a function;
\* the options are read when there is an argument between the array and
\* the callback.
composite(args, env) ==
    IF args.array = "absent" \/ ~args.callback
    THEN _compositeSync(args, env)
    ELSE
      /\ c_pc = "idle"
      /\ c_env' = env
      /\ c_args' = args
      /\ IF args.array # "array"
         THEN CompositeRejects("must provide an array of VectorTile objects and an optional options object")
         ELSE IF Len(args.vtiles) < 1
         THEN CompositeRejects("must provide an array with at least one VectorTile object and an optional options object")
         ELSE IF args.options = "other"
         THEN CompositeRejects("optional second argument must be an options object")
         ELSE
           LET o      == IF args.options = "object" THEN args.opts ELSE NoOptions
               what   == FirstError(AsyncOptionChecks(o), 1)
               bad    == FirstNotTile(args.vtiles)
           IN  IF what # ""
               THEN CompositeRejects(what)
               ELSE IF bad # 0
               THEN \* the items before the bad one have been given a Ref()
                    /\ c_ret' = [thrown |-> TRUE,
                                 error |-> "must provide an array of VectorTile objects"]
                    /\ c_refs' = [c_refs EXCEPT !.vtiles = @ + (bad - 1)]
                    /\ UNCHANGED <<c_pc, c_target, c_call, c_baton, c_cb, c_runs>>
               ELSE /\ c_baton' = [NoBaton EXCEPT !.vtiles = args.vtiles,
                                                  !.settings = Settings(o)]
                    /\ c_call' = [op |-> "async", vtiles |-> args.vtiles,
                                  settings |-> Settings(o)]
                    /\ c_refs' = [d |-> c_refs.d + 1,
                                  vtiles |-> c_refs.vtiles + Len(args.vtiles)]
                    /\ c_ret' = NoCompositeReturn
                    /\ c_pc' = "queued"
                    /\ UNCHANGED <<c_target, c_cb, c_runs>>

\* VectorTile::EIO_Composite, on a thread of the pool
EIO_Composite ==
    /\ c_pc = "queued"
    /\ LET out == _composite(c_target, c_baton.vtiles, c_env)
       IN  /\ c_target' = out.target
           /\ c_baton' = [c_baton EXCEPT !.error = out.error,
                                         !.error_name = out.error_name]
    /\ c_runs' = c_runs + 1
    /\ c_pc' = "worked"
    /\ UNCHANGED <<c_args, c_call, c_env, c_ret, c_cb, c_refs>>

\* VectorTile::EIO_AfterComposite, back on the main thread
EIO_AfterComposite ==
    /\ c_pc = "worked"
    /\ IF c_baton.error
       THEN c_cb' = [calls |-> c_cb.calls + 1, nargs |-> 1, err |-> c_baton.error_name]
       ELSE c_cb' = [calls |-> c_cb.calls + 1, nargs |-> 2, err |-> ""]
    /\ c_refs' = [d |-> c_refs.d - 1, vtiles |-> c_refs.vtiles - Len(c_baton.vtiles)]
    /\ c_baton' = NoBaton
    /\ c_pc' = "idle"
    /\ UNCHANGED <<c_target, c_args, c_call, c_env, c_ret, c_runs>>

(***************************************************************************)
(* VectorTile::info.  A buffer is the sequence of the top-level fields     *)
(* that a pbf_reader meets in it: layers, fields with another tag, and, as *)
(* its last field, one that makes the reader throw (a truncated or         *)
(* malformed field).  It is plain, or a gzip or zlib stream that           *)
(* zlib_decompress inflates or throws on.                                  *)
(***************************************************************************)
\* a LAYERS field: what get_layer_name_and_version and layer_is_valid find
LayerField(name, version, layer_errors, feature_count) ==
    [tag |-> "LAYERS", name |-> name, version |-> version,
     layer_errors |-> layer_errors, features |-> feature_count]
UnknownField ==
    [tag |-> "unknown", name |-> "", version |-> 0, layer_errors |-> {}, features |-> 0]
CorruptField ==
    [tag |-> "corrupt", name |-> "", version |-> 0, layer_errors |-> {}, features |-> 0]

Buffer(compression, inflates, fields) ==
    [kind |-> "Buffer", compression |-> compression, inflates |-> inflates,
     fields |-> fields]
NoArgument == [kind |-> "absent", compression |-> "none", inflates |-> TRUE, fields |-> <<>>]
NotBuffer == [kind |-> "object", compression |-> "none", inflates |-> TRUE, fields |-> <<>>]

\* the locals of info before the loop
InfoStart ==
    [layers |-> <<>>, errors |-> {}, has_errors |-> FALSE, first_layer |-> TRUE,
     layer_names_set |-> {}, version |-> 1, caught |-> FALSE]

\* the test of the name the other way round
RepeatedNameInverted(st, f) == f.name = "" /\ f.name \in st.layer_names_set

\* `if (!layer_name.empty())` and `if (!p.second)`: the name is in the set
RepeatedName(st, f) == f.name # "" /\ f.name \in st.layer_names_set

\* the test without first_layer
DifferentVersionUnguarded(st, f) == st.version # f.version

\* `if (first_layer) ... else if (version != layer_version)`
DifferentVersion(st, f) == ~st.first_layer /\ st.version # f.version

\* `case LAYERS:` for the field f
InfoLayer(st, f) ==
    LET layer_errors == (IF st.version > 2 \/ st.version < 1
                         THEN { "LAYER_HAS_UNSUPPORTED_VERSION" } ELSE {})
                            \cup f.layer_errors
        layer_obj == [has_name |-> f.name # "", name |-> f.name,
                      features |-> f.features, version |-> f.version,
                      has_errors |-> layer_errors # {}, errors |-> layer_errors]
    IN  [layers          |-> Append(st.layers, layer_obj),
         errors          |-> st.errors
                               \cup (IF RepeatedName(st, f)
                                     THEN { "TILE_REPEATED_LAYER_NAMES" } ELSE {})
                               \cup (IF DifferentVersion(st, f)
                                     THEN { "TILE_HAS_DIFFERENT_VERSIONS" } ELSE {}),
         has_errors      |-> st.has_errors \/ layer_errors # {},
         first_layer     |-> FALSE,
         layer_names_set |-> IF f.name # "" THEN st.layer_names_set \cup { f.name }
                             ELSE st.layer_names_set,
         version         |-> IF st.first_layer THEN f.version ELSE st.version,
         caught          |-> FALSE]

\* `default:` for a field with another tag
InfoUnknown(st) ==
    [st EXCEPT !.errors = @ \cup { "TILE_HAS_UNKNOWN_TAG" }]

\* a catch that also empties layers
InfoCatchDropping(st) ==
    [st EXCEPT !.errors = @ \cup { "INVALID_PBF_BUFFER" }, !.caught = TRUE,
               !.layers = <<>>]

\* `catch (...)`
InfoCatch(st) ==
    [st EXCEPT !.errors = @ \cup { "INVALID_PBF_BUFFER" }, !.caught = TRUE]

\* `while (tile_msg.next())` over the fields fields[1..n]
RECURSIVE InfoLoop(_, _)
InfoLoop(fields, n) ==
    IF n = 0 THEN InfoStart
    ELSE LET before == InfoLoop(fields, n - 1)
         IN  IF before.caught THEN before
             ELSE IF fields[n].tag = "corrupt" THEN InfoCatch(before)
             ELSE IF fields[n].tag = "LAYERS" THEN InfoLayer(before, fields[n])
             ELSE InfoUnknown(before)

\* the object out that info returns for a Buffer
InfoObject(buf) ==
    LET st == IF buf.compression # "none" /\ ~buf.inflates
              THEN InfoCatch(InfoStart)
              ELSE InfoLoop(buf.fields, Len(buf.fields))
    IN  [layers          |-> st.layers,
         errors          |-> st.has_errors \/ st.errors # {},
         has_tile_errors |-> st.errors # {},
         tile_errors     |-> st.errors]

NoInfoObject == [layers |-> <<>>, errors |-> FALSE, has_tile_errors |-> FALSE,
                 tile_errors |-> {}]

InfoIdle ==
    /\ i_arg = NoArgument
    /\ i_done = FALSE
    /\ i_thrown = FALSE
    /\ i_out = NoInfoObject

info(arg) ==
    /\ ~i_done
    /\ i_arg' = arg
    /\ i_done' = TRUE
    /\ IF arg.kind # "Buffer"
       THEN i_thrown' = TRUE /\ i_out' = NoInfoObject
       ELSE i_thrown' = FALSE /\ i_out' = InfoObject(arg)

(***************************************************************************)
(* The readers of the buffer of the tile: toJSON,                          *)
(* reportGeometrySimplicitySync and reportGeometryValiditySync.  The       *)
(* buffer is the sequence of its top-level fields; a LAYERS field holds    *)
(* the sequence of the fields of the layer and a FEATURES field the        *)
(* sequence of the fields of the feature.  A geometry stands for its       *)
(* coordinates by what the OGC tests find in them: whether it is simple,   *)
(* whether it is valid as a whole, and whether each of its parts is valid. *)
(***************************************************************************)
Geometry(type, parts, valid, simple) ==
    [type |-> type, parts |-> parts, valid |-> valid, simple |-> simple,
     frame |-> "encoded"]
NoGeometry == Geometry("empty", <<>>, TRUE, TRUE)

PbfField(tag, str, num, msg, geom) ==
    [tag |-> tag, str |-> str, num |-> num, msg |-> msg, geom |-> geom]
\* Tile_Encoding
LAYERS(layer_msg) == PbfField("LAYERS", "", 0, layer_msg, NoGeometry)
\* Layer_Encoding
NAME(name) == PbfField("NAME", name, 0, <<>>, NoGeometry)
FEATURES(feature_msg) == PbfField("FEATURES", "", 0, feature_msg, NoGeometry)
EXTENT(extent) == PbfField("EXTENT", "", extent, <<>>, NoGeometry)
VERSION(version) == PbfField("VERSION", "", version, <<>>, NoGeometry)
\* Feature_Encoding
ID(id) == PbfField("ID", "", id, <<>>, NoGeometry)
TYPE(geom_type_enum) == PbfField("TYPE", "", geom_type_enum, <<>>, NoGeometry)
GEOMETRY(geom) == PbfField("GEOMETRY", "", 0, <<>>, geom)
\* a field with a tag that the reader has no case for
UNKNOWN == PbfField("unknown", "", 0, <<>>, NoGeometry)

\* Geometry_Type of the vector tile specification: POINT, LINESTRING, POLYGON
GeomTypeEnum(type) ==
    IF type \in { "point", "multi_point" } THEN 1
    ELSE IF type \in { "line_string", "multi_line_string" } THEN 2
    ELSE IF type \in { "polygon", "multi_polygon" } THEN 3
    ELSE 0

\* mapnik::vector_tile_impl::decode_geometry: the geometry of the packed
\* commands, in the frame that its offset and scale give
decode_geometry(geoms, frame) == [geoms EXCEPT !.frame = frame]

\* mapnik::geometry::reproject_copy from epsg:3857 to epsg:4326
reproject_copy(geom) == [geom EXCEPT !.frame = "wgs84"]

\* mapnik::geometry::is_simple and mapnik::geometry::is_valid
is_simple(geom) == geom.simple
is_valid(geom) == geom.valid

\* mapnik::util::to_geojson of a feature with the id and the geometry given
to_geojson(id, type, parts, frame) ==
    [id |-> id, type |-> type, parts |-> parts, frame |-> frame]

not_simple_feature(layer, feature_id) == [layer |-> layer, feature_id |-> feature_id]

not_valid_feature(message, layer, feature_id, geojson) ==
    [message |-> message, layer |-> layer, feature_id |-> feature_id,
     geojson |-> geojson]

\* the message that is_valid writes for a geometry it rejects
InvalidMessage == "Geometry is not valid"

IsMulti(geom) == geom.type \in { "multi_line_string", "multi_polygon" }
PartType(geom) == IF geom.type = "multi_line_string" THEN "line_string" ELSE "polygon"

\* `for (auto const& ls : geom)` / `for (auto const& poly : geom)` of
\* visitor_geom_valid, over the parts 1..n
RECURSIVE VisitParts(_, _, _, _)
VisitParts(id, geom, layer_name, n) ==
    IF n = 0 THEN <<>>
    ELSE LET before == VisitParts(id, geom, layer_name, n - 1)
         IN  IF ~geom.parts[n]
             THEN Append(before,
                         not_valid_feature(InvalidMessage, layer_name, id,
                             to_geojson(id, PartType(geom), <<geom.parts[n]>>, geom.frame)))
             ELSE before

\* visitor_geom_valid applied to the geometry of the feature with the id
\* given: the findings that it appends to errors
visitor_geom_valid(id, geom, layer_name, split_multi_features) ==
    IF geom.type = "empty" THEN <<>>
    ELSE IF IsMulti(geom) /\ split_multi_features
    THEN VisitParts(id, geom, layer_name, Len(geom.parts))
    ELSE IF ~is_valid(geom)
    THEN << not_valid_feature(InvalidMessage, layer_name, id,
                              to_geojson(id, geom.type, geom.parts, geom.frame)) >>
    ELSE <<>>

IsFEATURES(f) == f.tag = "FEATURES"
IsNAME(f) == f.tag = "NAME"
IsID(f) == f.tag = "ID"
IsGEOMETRY(f) == f.tag = "GEOMETRY"
IsLAYERS(f) == f.tag = "LAYERS"
Last(seq) == seq[Len(seq)]

\* what mapnik::vector_tile_impl::tile_datasource_pbf makes of a feature
\* message: its id and its geometry in web mercator
DatasourceFeature(feature_msg) ==
    LET ids == SelectSeq(feature_msg, IsID)
        geoms == SelectSeq(feature_msg, IsGEOMETRY)
    IN  [id |-> IF ids = <<>> THEN 0 ELSE Last(ids).num,
         geometry |-> IF geoms = <<>> THEN NoGeometry
                      ELSE decode_geometry(Last(geoms).geom, "merc")]

\* mapnik::vector_tile_impl::tile_datasource_pbf over a layer message: its
\* name and the features that its featureset yields for an unbounded query
tile_datasource_pbf(layer_msg) ==
    LET names == SelectSeq(layer_msg, IsNAME)
        feats == SelectSeq(layer_msg, IsFEATURES)
    IN  [name |-> IF names = <<>> THEN "" ELSE Last(names).str,
         features |-> [k \in 1..Len(feats) |-> DatasourceFeature(feats[k].msg)]]

\* `while ((feature = fs->next()))` of layer_not_simple, over the features 1..n
RECURSIVE NotSimpleFeatures(_, _)
NotSimpleFeatures(ds, n) ==
    IF n = 0 THEN <<>>
    ELSE LET before == NotSimpleFeatures(ds, n - 1)
         IN  IF ~is_simple(ds.features[n].geometry)
             THEN Append(before, not_simple_feature(ds.name, ds.features[n].id))
             ELSE before

\* layer_not_simple: errors after the layer
layer_not_simple(layer_msg, errors) ==
    LET ds == tile_datasource_pbf(layer_msg)
    IN  errors \o NotSimpleFeatures(ds, Len(ds.features))

\* vector_tile_not_simple: `while (tile_msg.next(LAYERS))` over the
\* top-level fields 1..n
RECURSIVE vector_tile_not_simple(_, _)
vector_tile_not_simple(tile_msg, n) ==
    IF n = 0 THEN <<>>
    ELSE LET errors == vector_tile_not_simple(tile_msg, n - 1)
         IN  IF tile_msg[n].tag = "LAYERS"
             THEN layer_not_simple(tile_msg[n].msg, errors)
             ELSE errors

\* `while ((feature = fs->next()))` of layer_not_valid, over the features 1..n
RECURSIVE DatasourceNotValid(_, _, _, _)
DatasourceNotValid(ds, n, split_multi_features, lat_lon) ==
    IF n = 0 THEN <<>>
    ELSE DatasourceNotValid(ds, n - 1, split_multi_features, lat_lon) \o
         visitor_geom_valid(ds.features[n].id,
                            IF lat_lon THEN reproject_copy(ds.features[n].geometry)
                            ELSE ds.features[n].geometry,
                            ds.name, split_multi_features)

\* the locals of layer_not_valid before `while (layer_msg.next())`
ValidLayerStart == [layer_name |-> "", version |-> 1, layer_features |-> <<>>]

\* a loop that leaves at a tag it has no case for
RECURSIVE ValidLayerLoopStopping(_, _)
ValidLayerLoopStopping(layer_msg, n) ==
    IF n = 0 THEN ValidLayerStart
    ELSE LET st == ValidLayerLoopStopping(layer_msg, n - 1)
             f == layer_msg[n]
         IN  IF \E i \in 1..n : layer_msg[i].tag = "unknown" THEN st
             ELSE IF f.tag = "NAME" THEN [st EXCEPT !.layer_name = f.str]
             ELSE IF f.tag = "FEATURES"
             THEN [st EXCEPT !.layer_features = Append(@, f.msg)]
             ELSE IF f.tag = "VERSION" THEN [st EXCEPT !.version = f.num]
             ELSE st

\* `while (layer_msg.next())` of layer_not_valid, over the fields 1..n
RECURSIVE ValidLayerLoop(_, _)
ValidLayerLoop(layer_msg, n) ==
    IF n = 0 THEN ValidLayerStart
    ELSE LET st == ValidLayerLoop(layer_msg, n - 1)
             f == layer_msg[n]
         IN  IF f.tag = "NAME" THEN [st EXCEPT !.layer_name = f.str]
             ELSE IF f.tag = "FEATURES"
             THEN [st EXCEPT !.layer_features = Append(@, f.msg)]
             ELSE IF f.tag = "VERSION" THEN [st EXCEPT !.version = f.num]
             ELSE st

\* the locals of layer_not_valid before `while (feature_msg.next())`
ValidFeatureStart ==
    [has_geom |-> FALSE, has_geom_type |-> FALSE, geom_type_enum |-> 0,
     feature_id |-> 0, geom_itr |-> NoGeometry]

\* `while (feature_msg.next())` of layer_not_valid, over the fields 1..n
RECURSIVE ValidFeatureLoop(_, _)
ValidFeatureLoop(feature_msg, n) ==
    IF n = 0 THEN ValidFeatureStart
    ELSE LET st == ValidFeatureLoop(feature_msg, n - 1)
             f == feature_msg[n]
         IN  IF f.tag = "ID" THEN [st EXCEPT !.feature_id = f.num]
             ELSE IF f.tag = "TYPE"
             THEN [st EXCEPT !.geom_type_enum = f.num, !.has_geom_type = TRUE]
             ELSE IF f.tag = "GEOMETRY"
             THEN [st EXCEPT !.geom_itr = f.geom, !.has_geom = TRUE]
             ELSE st

\* `mapnik::feature_factory::create(ctx,1)`: the id of the feature that the
\* default branch of layer_not_valid hands to the visitor
CreatedFeatureId == 1

\* `for (auto feature_msg : layer_features)` of layer_not_valid, over the
\* features 1..n
RECURSIVE DecodedNotValid(_, _, _)
DecodedNotValid(layer, n, split_multi_features) ==
    IF n = 0 THEN <<>>
    ELSE LET feature_msg == layer.layer_features[n]
             st == ValidFeatureLoop(feature_msg, Len(feature_msg))
         IN  DecodedNotValid(layer, n - 1, split_multi_features) \o
             (IF st.has_geom /\ st.has_geom_type
              THEN visitor_geom_valid(CreatedFeatureId,
                                      decode_geometry(st.geom_itr, "tile"),
                                      layer.layer_name, split_multi_features)
              ELSE <<>>)

\* layer_not_valid: errors after the layer
layer_not_valid(layer_msg, errors, split_multi_features, lat_lon, web_merc) ==
    IF web_merc \/ lat_lon
    THEN LET ds == tile_datasource_pbf(layer_msg)
         IN  errors \o DatasourceNotValid(ds, Len(ds.features),
                                          split_multi_features, lat_lon)
    ELSE LET layer == ValidLayerLoop(layer_msg, Len(layer_msg))
         IN  errors \o DecodedNotValid(layer, Len(layer.layer_features),
                                       split_multi_features)

\* a scan that ends at the first layer in which it found something
RECURSIVE vector_tile_not_validFirstOnly(_, _, _, _, _)
vector_tile_not_validFirstOnly(tile_msg, n, split_multi_features, lat_lon, web_merc) ==
    IF n = 0 THEN <<>>
    ELSE LET errors == vector_tile_not_validFirstOnly(tile_msg, n - 1,
                           split_multi_features, lat_lon, web_merc)
         IN  IF tile_msg[n].tag = "LAYERS" /\ errors = <<>>
             THEN layer_not_valid(tile_msg[n].msg, errors,
                                  split_multi_features, lat_lon, web_merc)
             ELSE errors

\* vector_tile_not_valid: `while (tile_msg.next(LAYERS))` over the
\* top-level fields 1..n
RECURSIVE vector_tile_not_valid(_, _, _, _, _)
vector_tile_not_valid(tile_msg, n, split_multi_features, lat_lon, web_merc) ==
    IF n = 0 THEN <<>>
    ELSE LET errors == vector_tile_not_valid(tile_msg, n - 1,
                           split_multi_features, lat_lon, web_merc)
         IN  IF tile_msg[n].tag = "LAYERS"
             THEN layer_not_valid(tile_msg[n].msg, errors,
                                  split_multi_features, lat_lon, web_merc)
             ELSE errors

\* make_not_simple_array and make_not_valid_array: one object for each
\* element of errors, at the index of the element
make_not_simple_array(errors) ==
    [k \in 1..Len(errors) |->
        [layer |-> errors[k].layer, featureId |-> errors[k].feature_id]]

make_not_valid_array(errors) ==
    [k \in 1..Len(errors) |->
        [layer |-> errors[k].layer, message |-> errors[k].message,
         featureId |-> errors[k].feature_id, geojson |-> errors[k].geojson]]

(***************************************************************************)
(* VectorTile::toJSON.  The buffers modelled hold no KEYS and VALUES       *)
(* fields and their features no TAGS and RASTER fields, so that            *)
(* properties is the empty object.                                         *)
(***************************************************************************)
\* layer_obj and the locals of toJSON before `while (layer_msg.next())`
JSONLayerStart ==
    [has_name |-> FALSE, name |-> "", has_extent |-> FALSE, extent |-> 0,
     has_version |-> FALSE, version |-> 1, layer_features |-> <<>>]

\* `while (layer_msg.next())` of toJSON, over the fields 1..n
RECURSIVE JSONLayerLoop(_, _)
JSONLayerLoop(layer_msg, n) ==
    IF n = 0 THEN JSONLayerStart
    ELSE LET st == JSONLayerLoop(layer_msg, n - 1)
             f == layer_msg[n]
         IN  IF f.tag = "NAME" THEN [st EXCEPT !.has_name = TRUE, !.name = f.str]
             ELSE IF f.tag = "FEATURES"
             THEN [st EXCEPT !.layer_features = Append(@, f.msg)]
             ELSE IF f.tag = "EXTENT"
             THEN [st EXCEPT !.has_extent = TRUE, !.extent = f.num]
             ELSE IF f.tag = "VERSION"
             THEN [st EXCEPT !.has_version = TRUE, !.version = f.num]
             ELSE st

\* feature_obj and the locals of toJSON before `while (feature_msg.next())`
JSONFeatureStart ==
    [has_id |-> FALSE, id |-> 0, has_geom |-> FALSE, has_geom_type |-> FALSE,
     geom_type_enum |-> 0, geom_itr |-> NoGeometry]

\* `while (feature_msg.next())` of toJSON, over the fields 1..n
RECURSIVE JSONFeatureLoop(_, _)
JSONFeatureLoop(feature_msg, n) ==
    IF n = 0 THEN JSONFeatureStart
    ELSE LET st == JSONFeatureLoop(feature_msg, n - 1)
             f == feature_msg[n]
         IN  IF f.tag = "ID" THEN [st EXCEPT !.has_id = TRUE, !.id = f.num]
             ELSE IF f.tag = "TYPE"
             THEN [st EXCEPT !.geom_type_enum = f.num, !.has_geom_type = TRUE]
             ELSE IF f.tag = "GEOMETRY"
             THEN [st EXCEPT !.geom_itr = f.geom, !.has_geom = TRUE]
             ELSE st

\* feature_obj after the loop
JSONFeature(feature_msg, decode_geometry_option) ==
    LET st == JSONFeatureLoop(feature_msg, Len(feature_msg))
        both == st.has_geom /\ st.has_geom_type
        geom == decode_geometry(st.geom_itr, "tile")
    IN  [has_id |-> st.has_id, id |-> st.id,
         has_type |-> st.has_geom_type, type |-> st.geom_type_enum,
         properties |-> {},
         has_geometry |-> both,
         geometry |-> IF ~both THEN NoGeometry
                      ELSE IF decode_geometry_option THEN geom
                      ELSE st.geom_itr,
         geometry_type |-> IF both /\ decode_geometry_option THEN geom.type ELSE ""]

\* layer_obj after the loops
JSONLayer(layer_msg, decode_geometry_option) ==
    LET st == JSONLayerLoop(layer_msg, Len(layer_msg))
    IN  [has_name |-> st.has_name, name |-> st.name,
         has_extent |-> st.has_extent, extent |-> st.extent,
         has_version |-> st.has_version, version |-> st.version,
         features |-> [k \in 1..Len(st.layer_features) |->
                          JSONFeature(st.layer_features[k], decode_geometry_option)]]

\* `while (tile_msg.next(LAYERS))` of toJSON, over the top-level fields 1..n
RECURSIVE JSONLayers(_, _, _)
JSONLayers(tile_msg, n, decode_geometry_option) ==
    IF n = 0 THEN <<>>
    ELSE LET arr == JSONLayers(tile_msg, n - 1, decode_geometry_option)
         IN  IF tile_msg[n].tag = "LAYERS"
             THEN Append(arr, JSONLayer(tile_msg[n].msg, decode_geometry_option))
             ELSE arr

(***************************************************************************)
(* The calls.  An option is a boolean, a value of another type, or absent; *)
(* the options argument is an object, a value of another type, or absent.  *)
(***************************************************************************)
Bool(b) == [kind |-> "boolean", b |-> b]
NotBoolean == [kind |-> "other", b |-> FALSE]
NoOption == [kind |-> "absent", b |-> FALSE]

ReportOptions(split_multi_features, lat_lon, web_merc, decode_geometry_option) ==
    [kind |-> "object", split_multi_features |-> split_multi_features,
     lat_lon |-> lat_lon, web_merc |-> web_merc,
     decode_geometry |-> decode_geometry_option]
NoReportOptions ==
    [kind |-> "absent", split_multi_features |-> NoOption, lat_lon |-> NoOption,
     web_merc |-> NoOption, decode_geometry |-> NoOption]
NotReportOptions ==
    [kind |-> "other", split_multi_features |-> NoOption, lat_lon |-> NoOption,
     web_merc |-> NoOption, decode_geometry |-> NoOption]

\* the value of a boolean option: the one given, or false
OptionValue(o) == o.kind = "boolean" /\ o.b

NoReportCall == [op |-> "", options |-> NoReportOptions]
NoReportReturn == [thrown |-> FALSE, value |-> <<>>]

\* no reader has been called
ReportIdle ==
    /\ r_tile = <<>>
    /\ r_call = NoReportCall
    /\ r_done = FALSE
    /\ r_ret = NoReportReturn

\* VectorTile::toJSON
toJSON(options) ==
    /\ r_call' = [op |-> "toJSON", options |-> options]
    /\ r_done' = TRUE
    /\ IF options.kind = "other" \/ options.decode_geometry.kind = "other"
       THEN r_ret' = [thrown |-> TRUE, value |-> <<>>]
       ELSE r_ret' = [thrown |-> FALSE,
                      value |-> JSONLayers(r_tile, Len(r_tile),
                                           OptionValue(options.decode_geometry))]
    /\ UNCHANGED r_tile

\* VectorTile::reportGeometrySimplicitySync
reportGeometrySimplicitySync ==
    /\ r_call' = [op |-> "reportGeometrySimplicitySync", options |-> NoReportOptions]
    /\ r_done' = TRUE
    /\ r_ret' = [thrown |-> FALSE,
                 value |-> make_not_simple_array(
                               vector_tile_not_simple(r_tile, Len(r_tile)))]
    /\ UNCHANGED r_tile

\* VectorTile::reportGeometryValiditySync
reportGeometryValiditySync(options) ==
    /\ r_call' = [op |-> "reportGeometryValiditySync", options |-> options]
    /\ r_done' = TRUE
    /\ IF \/ options.kind = "other"
          \/ options.split_multi_features.kind = "other"
          \/ options.lat_lon.kind = "other"
          \/ options.web_merc.kind = "other"
       THEN r_ret' = [thrown |-> TRUE, value |-> <<>>]
       ELSE r_ret' = [thrown |-> FALSE,
                      value |-> make_not_valid_array(
                                    vector_tile_not_valid(r_tile, Len(r_tile),
                                        OptionValue(options.split_multi_features),
                                        OptionValue(options.lat_lon),
                                        OptionValue(options.web_merc)))]
    /\ UNCHANGED r_tile

\* what mapnik::vector_tile_impl::get_layer_name_and_version and
\* layer_is_valid find in a layer message
InfoLayerField(layer_msg) ==
    LET layer == ValidLayerLoop(layer_msg, Len(layer_msg))
        feats == layer.layer_features
    IN  LayerField(layer.layer_name, layer.version,
            (IF \E i \in 1..Len(layer_msg) : layer_msg[i].tag = "unknown"
             THEN { "LAYER_HAS_UNKNOWN_TAG" } ELSE {}) \cup
            (IF \E k \in 1..Len(feats) : \E i \in 1..Len(feats[k]) :
                    feats[k][i].tag = "unknown"
             THEN { "FEATURE_HAS_UNKNOWN_TAG" } ELSE {}),
            Len(feats))

\* the top-level fields of a buffer as info meets them
InfoFields(tile_msg) ==
    [k \in 1..Len(tile_msg) |->
        IF tile_msg[k].tag = "LAYERS" THEN InfoLayerField(tile_msg[k].msg)
        ELSE UnknownField]

(***************************************************************************)
(* VectorTile::New, the part that reads tile_size and buffer_size.         *)
(* `static_cast<double>(tile_size) + (2 * buffer_size) <= 0`: the product  *)
(* is an int product; where it overflows the outcome of the test is any    *)
(* of the two.                                                             *)
(***************************************************************************)
NewTooLargeBuffer(ts, bs) ==
    IF TwiceOverflows(bs) THEN BOOLEAN
    ELSE { ~SizeSumPositive(ts, bs) }

New(opt_tile_size, opt_buffer_size) ==
    /\ ~vt_built
    /\ LET ts_bad == opt_tile_size # Absent /\
                     (~IsNumber(opt_tile_size) \/ opt_tile_size.v <= 0)
           ts     == IF opt_tile_size = Absent THEN 4096 ELSE opt_tile_size.v
           bs_bad == opt_buffer_size # Absent /\ ~IsNumber(opt_buffer_size)
           bs     == IF opt_buffer_size = Absent THEN 128 ELSE opt_buffer_size.v
       IN  IF ts_bad \/ bs_bad
           THEN /\ vt_thrown' = TRUE
                /\ UNCHANGED <<vt_built, tile_size, buffer_size>>
           ELSE \E too_large \in NewTooLargeBuffer(ts, bs) :
                   IF too_large
                   THEN /\ vt_thrown' = TRUE
                        /\ UNCHANGED <<vt_built, tile_size, buffer_size>>
                   ELSE /\ vt_built' = TRUE
                        /\ tile_size' = ts
                        /\ buffer_size' = bs
                        /\ vt_thrown' = FALSE

(***************************************************************************)
(* VectorTile::set_tile_size                                               *)
(***************************************************************************)
set_tile_size(value) ==
    /\ vt_built
    /\ IF ~IsNumber(value) \/ value.v <= 0
       THEN /\ vt_thrown' = TRUE
            /\ UNCHANGED <<vt_built, tile_size, buffer_size>>
       ELSE /\ tile_size' = value.v
            /\ vt_thrown' = FALSE
            /\ UNCHANGED <<vt_built, buffer_size>>

(***************************************************************************)
(* VectorTile::set_buffer_size.                                            *)
(* `static_cast<int>(d->tile_size()) + (2 * val) <= 0` is computed in int: *)
(* where the product or the sum overflows the outcome of the test is any   *)
(* of the two.                                                             *)
(***************************************************************************)
SetTooLargeBuffer(ts, val) ==
    IF TwiceOverflows(val) THEN BOOLEAN
    ELSE IF AddOverflows(ts, 2 * val) THEN BOOLEAN
    ELSE { ts + 2 * val <= 0 }

set_buffer_size(value) ==
    /\ vt_built
    /\ IF ~IsNumber(value)
       THEN /\ vt_thrown' = TRUE
            /\ UNCHANGED <<vt_built, tile_size, buffer_size>>
       ELSE \E too_large \in SetTooLargeBuffer(tile_size, value.v) :
               IF too_large
               THEN /\ vt_thrown' = TRUE
                    /\ UNCHANGED <<vt_built, tile_size, buffer_size>>
               ELSE /\ buffer_size' = value.v
                    /\ vt_thrown' = FALSE
                    /\ UNCHANGED <<vt_built, tile_size>>

(***************************************************************************)
(* VectorTile::New, the part that reads z, x and y, and the setters of     *)
(* x, y and z.  `std::int64_t max_at_zoom = pow(2,z)` converts a double to *)
(* int64: from z = 63 on the value is out of its range and the outcome of  *)
(* the comparisons with it is any of the two; from z = 31 on it is larger  *)
(* than every int.                                                         *)
(***************************************************************************)
Pow2(n) == IF n = 0 THEN 1 ELSE 2 ^ n

\* `x >= max_at_zoom`
AtLeastMaxAtZoom(v, z) ==
    IF z >= 63 THEN BOOLEAN
    ELSE IF z >= 31 THEN { FALSE }
    ELSE { v >= Pow2(z) }

\* no VectorTile object yet
AddressIdle ==
    /\ a_built = FALSE
    /\ a_z = 0
    /\ a_x = 0
    /\ a_y = 0
    /\ a_thrown = FALSE

\* VectorTile::New(z, x, y)
NewZXY(z, x, y) ==
    /\ ~a_built
    /\ IF \/ z = Absent \/ x = Absent \/ y = Absent
          \/ ~IsNumber(z) \/ ~IsNumber(x) \/ ~IsNumber(y)
          \/ z.v < 0 \/ x.v < 0 \/ y.v < 0
       THEN /\ a_thrown' = TRUE
            /\ UNCHANGED <<a_built, a_z, a_x, a_y>>
       ELSE \E x_out \in AtLeastMaxAtZoom(x.v, z.v) :
            \E y_out \in AtLeastMaxAtZoom(y.v, z.v) :
               IF x_out \/ y_out
               THEN /\ a_thrown' = TRUE
                    /\ UNCHANGED <<a_built, a_z, a_x, a_y>>
               ELSE /\ a_built' = TRUE
                    /\ a_z' = z.v
                    /\ a_x' = x.v
                    /\ a_y' = y.v
                    /\ a_thrown' = FALSE

\* VectorTile::set_tile_x
set_tile_x(value) ==
    /\ a_built
    /\ IF ~IsNumber(value) \/ value.v < 0
       THEN a_thrown' = TRUE /\ UNCHANGED <<a_built, a_z, a_x, a_y>>
       ELSE a_x' = value.v /\ a_thrown' = FALSE /\ UNCHANGED <<a_built, a_z, a_y>>

\* VectorTile::set_tile_y
set_tile_y(value) ==
    /\ a_built
    /\ IF ~IsNumber(value) \/ value.v < 0
       THEN a_thrown' = TRUE /\ UNCHANGED <<a_built, a_z, a_x, a_y>>
       ELSE a_y' = value.v /\ a_thrown' = FALSE /\ UNCHANGED <<a_built, a_z, a_x>>

\* VectorTile::set_tile_z
set_tile_z(value) ==
    /\ a_built
    /\ IF ~IsNumber(value) \/ value.v < 0
       THEN a_thrown' = TRUE /\ UNCHANGED <<a_built, a_z, a_x, a_y>>
       ELSE a_z' = value.v /\ a_thrown' = FALSE /\ UNCHANGED <<a_built, a_x, a_y>>

(***************************************************************************)
(* The data of a tile: layer, setData, addData, getData and clear, with    *)
(* and without a callback.  The buffer of the tile is the sequence of its  *)
(* layers; a layer is its name, its version and where its bytes came from  *)
(* ("tile": it was there before the calls, "data": a call merged it in).   *)
(***************************************************************************)
NoString == [kind |-> "absent", v |-> ""]

TileLayer(name, version, from) == [name |-> name, version |-> version, from |-> from]

\* a VectorTile object: tile_->z(), x(), y(), tile_size(), buffer_size(),
\* the layers of the buffer, and whether tile_->size() >= kMaxLength
TileObject(z, x, y, size, buffer, layers, huge) ==
    [z |-> z, x |-> x, y |-> y, tile_size |-> size, buffer_size |-> buffer,
     layers |-> layers, huge |-> huge]

\* tile_->has_layer(name)
has_layer(t, name) == \E k \in 1..Len(t.layers) : t.layers[k].name = name

\* d->clear(): the buffer and the list of layers are emptied
clear(t) == [t EXCEPT !.layers = <<>>, !.huge = FALSE]

\* tile_->size()
raw_size_is_zero(t) == t.layers = <<>>

\* the layer of a LAYERS field, as append_layer_buffer adds it
MergedLayer(f) == TileLayer(f.name, f.version, "data")

\* the layer of a LAYERS field of version 1 after the upgrade to version 2
UpgradedLayer(f) == TileLayer(f.name, 2, "data")

\* what the validation of merge_from_buffer finds wrong with the field f
MergeErrors(t, f) ==
    (IF f.version < 1 \/ f.version > 2 THEN { "LAYER_HAS_UNSUPPORTED_VERSION" } ELSE {})
        \cup (IF has_layer(t, f.name) THEN { "TILE_REPEATED_LAYER_NAMES" } ELSE {})
        \cup f.layer_errors

\* one turn of the loop of merge_from_buffer: st is the tile so far, the
\* layers kept for the upgrade, and whether the reader or the validation threw
MergeField(st, f, validate, upgrade) ==
    IF f.tag = "corrupt" THEN [st EXCEPT !.threw = TRUE, !.what = "corrupt"]
    ELSE IF f.tag # "LAYERS"
    THEN [st EXCEPT !.threw = TRUE, !.what = "Vector Tile Buffer contains invalid tag"]
    ELSE IF validate /\ MergeErrors(st.t, f) # {}
    THEN [st EXCEPT !.threw = TRUE, !.what = "invalid layer"]
    ELSE IF ~validate /\ (f.name = "" \/ has_layer(st.t, f.name))
    THEN st
    ELSE IF upgrade /\ f.version = 1
    THEN [st EXCEPT !.later = Append(@, UpgradedLayer(f))]
    ELSE [st EXCEPT !.t.layers = Append(@, MergedLayer(f))]

RECURSIVE MergeLoop(_, _, _, _, _)
MergeLoop(t, fields, n, validate, upgrade) ==
    IF n = 0 THEN [t |-> t, later |-> <<>>, threw |-> FALSE, what |-> ""]
    ELSE LET st == MergeLoop(t, fields, n - 1, validate, upgrade)
         IN  IF st.threw THEN st
             ELSE MergeField(st, fields[n], validate, upgrade)

\* merge_from_compressed_buffer: inflates a gzip or zlib stream, then
\* merge_from_buffer; the layers kept for the upgrade are added after the
\* loop.  The result is the tile as the call leaves it and what it threw.
merge_from_compressed_buffer(t, buf, validate, upgrade) ==
    IF buf.compression # "none" /\ ~buf.inflates
    THEN [t |-> t, threw |-> TRUE, what |-> "decompression failed"]
    ELSE LET st == MergeLoop(t, buf.fields, Len(buf.fields), validate, upgrade)
         IN  IF st.threw
             THEN [t |-> st.t, threw |-> TRUE, what |-> st.what]
             ELSE [t |-> [st.t EXCEPT !.layers = @ \o st.later],
                   threw |-> FALSE, what |-> ""]

\* Buffer::Length() of a buffer argument: zero for the plain buffer without
\* a field
LengthIsZero(buf) == buf.compression = "none" /\ buf.fields = <<>>

\* a setData that merges into the tile as it is
SetDataMergeKeeping(t, buf, validate, upgrade) ==
    merge_from_compressed_buffer(t, buf, validate, upgrade)

\* the try block of _setDataSync and of EIO_SetData: d->clear(), then
\* merge_from_compressed_buffer
SetDataMerge(t, buf, validate, upgrade) ==
    merge_from_compressed_buffer(clear(t), buf, validate, upgrade)

\* a merge into a tile emptied first
AddDataMergeClearing(t, buf, validate, upgrade) ==
    merge_from_compressed_buffer(clear(t), buf, validate, upgrade)

\* the try block of _addDataSync and of EIO_AddData
AddDataMerge(t, buf, validate, upgrade) ==
    merge_from_compressed_buffer(t, buf, validate, upgrade)

\* the options object of getData and getDataSync
GetOptions(compression, release, level, strategy) ==
    [kind |-> "object", compression |-> compression, release |-> release,
     level |-> level, strategy |-> strategy]
NoGetOptions ==
    [kind |-> "absent", compression |-> NoString, release |-> NoOption,
     level |-> Absent, strategy |-> NoString]
NotGetOptions ==
    [kind |-> "other", compression |-> NoString, release |-> NoOption,
     level |-> Absent, strategy |-> NoString]

\* the arguments of a data call: the buffer and the options of setData and
\* addData, the name of layer, the options of getData, whether the last
\* argument is a function, and the map and the surface of render
DataArgs(data, options, validate, upgrade, name, get, callback) ==
    [data |-> data, options |-> options, validate |-> validate, upgrade |-> upgrade,
     name |-> name, get |-> get, callback |-> callback, map |-> FALSE,
     surface |-> "none"]

\* a Buffer as getData hands it out: the bytes of the layers, plain or as
\* the gzip stream that zlib_compress makes of them
Bytes(encoding, level, strategy, layers) ==
    [encoding |-> encoding, level |-> level, strategy |-> strategy, layers |-> layers]

\* Buffer::New(env, 0), and the empty std::string
NoBytes == Bytes("raw", 0, "", <<>>)

Z_DEFAULT_COMPRESSION == 0 - 1
StrategyNames == { "FILTERED", "HUFFMAN_ONLY", "RLE", "FIXED", "DEFAULT" }

\* zlib_compress(data, size, out, true, level, strategy): a gzip stream,
\* never empty
zlib_compress(layers, level, strategy) == Bytes("gzip", level, strategy, layers)

\* Buffer::Copy of tile_->data(), and release_buffer()
RawBytes(t) == Bytes("raw", 0, "", t.layers)

\* std::string::empty() of the bytes
IsEmptyBytes(b) == b.encoding = "raw" /\ b.layers = <<>>

\* the baton of a queued data call
DataBaton(validate, upgrade, compress, release, level, strategy) ==
    [validate |-> validate, upgrade |-> upgrade, compress |-> compress,
     release |-> release, level |-> level, strategy |-> strategy,
     error |-> FALSE, error_name |-> "", data |-> NoBytes]
NoDataBaton == DataBaton(FALSE, FALSE, FALSE, FALSE, 0, "")

NoDataCallback == [calls |-> 0, nargs |-> 0, err |-> "", data |-> NoBytes]

\* a data call: pc is "threw", "returned", "queued", "working", "worked"
\* or "done"
DataCall(op, args, before, pc, error, value, baton) ==
    [op |-> op, args |-> args, before |-> before, pc |-> pc, error |-> error,
     value |-> value, baton |-> baton, cb |-> NoDataCallback, raced |-> FALSE]

\* the checks of the buffer argument and of the options of setData and
\* addData, without the check of the length: the message thrown, or ""
DataArgumentError(args) ==
    IF args.data.kind = "absent" /\ ~args.callback
    THEN "first argument must be a buffer object"
    ELSE IF args.data.kind # "Buffer" THEN "first arg must be a buffer object"
    ELSE IF args.options = "other" THEN "second arg must be a options object"
    ELSE IF args.options = "absent" THEN ""
    ELSE IF args.validate.kind \notin { "absent", "boolean" }
    THEN "option 'validate' must be a boolean"
    ELSE IF args.upgrade.kind \notin { "absent", "boolean" }
    THEN "option 'upgrade' must be a boolean"
    ELSE ""

\* the checks of _setDataSync and _addDataSync, in their order
SyncDataArgumentError(args) ==
    IF args.data.kind # "Buffer" THEN DataArgumentError(args)
    ELSE IF LengthIsZero(args.data) THEN "cannot accept empty buffer as protobuf"
    ELSE DataArgumentError(args)

\* validate and upgrade as the checks leave them
Validate(args) == args.options = "object" /\ OptionValue(args.validate)
Upgrade(args) == args.options = "object" /\ OptionValue(args.upgrade)

\* VectorTile::_setDataSync: the tile as the call leaves it, and what it threw
_setDataSync(t, args) ==
    LET what == SyncDataArgumentError(args)
        out  == SetDataMerge(t, args.data, Validate(args), Upgrade(args))
    IN  IF what # "" THEN [t |-> t, threw |-> TRUE, what |-> what, value |-> NoBytes]
        ELSE [t |-> out.t, threw |-> out.threw, what |-> out.what, value |-> NoBytes]

\* VectorTile::_addDataSync
_addDataSync(t, args) ==
    LET what == SyncDataArgumentError(args)
        out  == AddDataMerge(t, args.data, Validate(args), Upgrade(args))
    IN  IF what # "" THEN [t |-> t, threw |-> TRUE, what |-> what, value |-> NoBytes]
        ELSE [t |-> out.t, threw |-> out.threw, what |-> out.what, value |-> NoBytes]

\* VectorTile::_clearSync
_clearSync(t) == [t |-> clear(t), threw |-> FALSE, what |-> "", value |-> NoBytes]

\* the checks of the options of getData and getDataSync, in their order
GetOptionsError(get) ==
    IF get.kind = "other" THEN "first arg must be a options object"
    ELSE IF get.kind = "absent" THEN ""
    ELSE IF get.compression.kind = "other"
    THEN "option 'compression' must be a string, either 'gzip', or 'none' (default)"
    ELSE IF get.release.kind = "other" THEN "option 'release' must be a boolean"
    ELSE IF get.level.kind = "other" \/ (get.level.kind = "number"
                                          /\ (get.level.v < 0 \/ get.level.v > 9))
    THEN "option 'level' must be an integer between 0 (no compression) and 9 (best compression) inclusive"
    ELSE IF get.strategy.kind = "other"
            \/ (get.strategy.kind = "string" /\ get.strategy.v \notin StrategyNames)
    THEN "option 'strategy' must be one of the following strings: FILTERED, HUFFMAN_ONLY, RLE, FIXED, DEFAULT"
    ELSE ""

\* compress, release, level and strategy as the checks leave them
Compress(get) == get.compression.kind = "string" /\ get.compression.v = "gzip"
Release(get) == OptionValue(get.release)
Level(get) == IF get.level.kind = "number" THEN get.level.v ELSE Z_DEFAULT_COMPRESSION
Strategy(get) == IF get.strategy.kind = "string" THEN get.strategy.v ELSE "DEFAULT"

TooLarge == "Data is too large to convert to a node::Buffer"

\* a _getDataSync that compresses whatever the size is
GetDataCompressingEmpty(t, get) ==
    IF GetOptionsError(get) # ""
    THEN [t |-> t, threw |-> TRUE, what |-> GetOptionsError(get), value |-> NoBytes]
    ELSE IF Compress(get)
    THEN [t |-> IF Release(get) THEN clear(t) ELSE t, threw |-> FALSE, what |-> "",
          value |-> zlib_compress(t.layers, Level(get), Strategy(get))]
    ELSE IF raw_size_is_zero(t)
    THEN [t |-> t, threw |-> FALSE, what |-> "", value |-> NoBytes]
    ELSE IF t.huge
    THEN [t |-> t, threw |-> TRUE, what |-> TooLarge, value |-> NoBytes]
    ELSE [t |-> IF Release(get) THEN clear(t) ELSE t, threw |-> FALSE, what |-> "",
          value |-> RawBytes(t)]

\* VectorTile::_getDataSync: the tile as the call leaves it, and the Buffer
\* returned or the message thrown
_getDataSync(t, get) ==
    IF GetOptionsError(get) # ""
    THEN [t |-> t, threw |-> TRUE, what |-> GetOptionsError(get), value |-> NoBytes]
    ELSE IF raw_size_is_zero(t)
    THEN [t |-> t, threw |-> FALSE, what |-> "", value |-> NoBytes]
    ELSE IF t.huge
    THEN [t |-> t, threw |-> TRUE, what |-> TooLarge, value |-> NoBytes]
    ELSE [t |-> IF Release(get) THEN clear(t) ELSE t, threw |-> FALSE, what |-> "",
          value |-> IF Compress(get)
                    THEN zlib_compress(t.layers, Level(get), Strategy(get))
                    ELSE RawBytes(t)]

\* the try block of VectorTile::get_data: the baton after it
GetDataWork(t, baton) ==
    IF baton.compress
    THEN [baton EXCEPT !.data = zlib_compress(t.layers, baton.level, baton.strategy)]
    ELSE baton

\* VectorTile::after_get_data: the tile as it leaves it and the arguments of
\* the callback
AfterGetData(t, baton) ==
    IF baton.error
    THEN [t |-> t, nargs |-> 1, err |-> baton.error_name, data |-> NoBytes]
    ELSE IF ~IsEmptyBytes(baton.data)
    THEN [t |-> IF baton.release THEN clear(t) ELSE t, nargs |-> 2, err |-> "",
          data |-> baton.data]
    ELSE IF raw_size_is_zero(t)
    THEN [t |-> t, nargs |-> 2, err |-> "", data |-> NoBytes]
    ELSE IF t.huge
    THEN [t |-> t, nargs |-> 1, err |-> TooLarge, data |-> NoBytes]
    ELSE [t |-> IF baton.release THEN clear(t) ELSE t, nargs |-> 2, err |-> "",
          data |-> RawBytes(t)]

\* the body of EIO_SetData: the tile and the baton after it
SetDataWork(t, buf, baton) ==
    IF LengthIsZero(buf)
    THEN [t |-> t, baton |-> [baton EXCEPT !.error = TRUE,
                              !.error_name = "cannot accept empty buffer as protobuf"]]
    ELSE LET out == SetDataMerge(t, buf, baton.validate, baton.upgrade)
         IN  [t |-> out.t, baton |-> [baton EXCEPT !.error = out.threw,
                                                   !.error_name = out.what]]

\* the body of EIO_AddData
AddDataWork(t, buf, baton) ==
    IF LengthIsZero(buf)
    THEN [t |-> t, baton |-> [baton EXCEPT !.error = TRUE,
                              !.error_name = "cannot accept empty buffer as protobuf"]]
    ELSE LET out == AddDataMerge(t, buf, baton.validate, baton.upgrade)
         IN  [t |-> out.t, baton |-> [baton EXCEPT !.error = out.threw,
                                                   !.error_name = out.what]]

\* the body of EIO_Clear
ClearWork(t, baton) == [t |-> clear(t), baton |-> baton]

\* the first layer of the buffer with the name that layer() looks for
RECURSIVE FirstNamed(_, _, _)
FirstNamed(layers, name, k) ==
    IF k > Len(layers) THEN <<>>
    ELSE IF layers[k].name = name THEN << layers[k] >>
    ELSE FirstNamed(layers, name, k + 1)

\* a new VectorTile with the default sizes
NewTileDefaultSizes(t) == TileObject(t.z, t.x, t.y, 4096, 128, <<>>, FALSE)

\* `new VectorTile(z, x, y, d->tile_size(), d->buffer_size())`
NewTileLike(t) == TileObject(t.z, t.x, t.y, t.tile_size, t.buffer_size, <<>>, FALSE)

\* VectorTile::layer: the tile created, or the message thrown
_layer(t, name) ==
    IF name.kind = "absent"
    THEN [made |-> <<>>, threw |-> TRUE, what |-> "first argument must be either a layer name"]
    ELSE IF name.kind # "string"
    THEN [made |-> <<>>, threw |-> TRUE,
          what |-> "'layer' argument must be a layer name (string)"]
    ELSE IF ~has_layer(t, name.v)
    THEN [made |-> <<>>, threw |-> TRUE, what |-> "layer does not exist in vector tile"]
    ELSE [made |-> << [NewTileLike(t) EXCEPT !.layers = FirstNamed(t.layers, name.v, 1)] >>,
          threw |-> FALSE, what |-> ""]

\* no data call yet, nothing created, no reference taken
DataIdle ==
    /\ d_tile = TileObject(0, 0, 0, 4096, 128, <<>>, FALSE)
    /\ d_calls = <<>>
    /\ d_made = <<>>
    /\ d_refs = 0

\* a call that ran on the main thread and returned or threw
RunSync(op, args, out) ==
    /\ d_tile' = out.t
    /\ d_calls' = Append(d_calls,
                         DataCall(op, args, d_tile,
                                  IF out.threw THEN "threw" ELSE "returned",
                                  out.what, out.value, NoDataBaton))
    /\ UNCHANGED <<d_made, d_refs>>

\* a call with a callback that threw while checking its arguments
RejectData(op, args, what) ==
    /\ d_calls' = Append(d_calls,
                         DataCall(op, args, d_tile, "threw", what, NoBytes, NoDataBaton))
    /\ UNCHANGED <<d_tile, d_made, d_refs>>

\* `uv_queue_work(...)` and `d->Ref()`
QueueData(op, args, baton) ==
    /\ d_calls' = Append(d_calls,
                         DataCall(op, args, d_tile, "queued", "", NoBytes, baton))
    /\ d_refs' = d_refs + 1
    /\ UNCHANGED <<d_tile, d_made>>

\* VectorTile::layer
layer(args) ==
    LET out == _layer(d_tile, args.name)
    IN  /\ d_made' = d_made \o out.made
        /\ d_calls' = Append(d_calls,
                             DataCall("layer", args, d_tile,
                                      IF out.threw THEN "threw" ELSE "returned",
                                      out.what, NoBytes, NoDataBaton))
        /\ UNCHANGED <<d_tile, d_refs>>

\* VectorTile::setDataSync
setDataSync(args) == RunSync("setDataSync", args, _setDataSync(d_tile, args))

\* VectorTile::addDataSync
addDataSync(args) == RunSync("addDataSync", args, _addDataSync(d_tile, args))

\* VectorTile::getDataSync
getDataSync(args) == RunSync("getDataSync", args, _getDataSync(d_tile, args.get))

\* VectorTile::clearSync
clearSync(args) == RunSync("clearSync", args, _clearSync(d_tile))

\* VectorTile::setData
setData(args) ==
    IF ~args.callback THEN RunSync("setData", args, _setDataSync(d_tile, args))
    ELSE IF DataArgumentError(args) # ""
    THEN RejectData("setData", args, DataArgumentError(args))
    ELSE QueueData("setData", args,
                   DataBaton(Validate(args), Upgrade(args), FALSE, FALSE, 0, ""))

\* VectorTile::addData
addData(args) ==
    IF ~args.callback THEN RunSync("addData", args, _addDataSync(d_tile, args))
    ELSE IF DataArgumentError(args) # ""
    THEN RejectData("addData", args, DataArgumentError(args))
    ELSE QueueData("addData", args,
                   DataBaton(Validate(args), Upgrade(args), FALSE, FALSE, 0, ""))

\* VectorTile::getData
getData(args) ==
    IF ~args.callback THEN RunSync("getData", args, _getDataSync(d_tile, args.get))
    ELSE IF GetOptionsError(args.get) # ""
    THEN RejectData("getData", args, GetOptionsError(args.get))
    ELSE QueueData("getData", args,
                   DataBaton(FALSE, FALSE, Compress(args.get), Release(args.get),
                             Level(args.get), Strategy(args.get)))

\* VectorTile::clear with arguments: without any (options "absent", no
\* callback) it is _clearSync
VectorTile_clear(args) ==
    IF ~args.callback /\ args.options = "absent"
    THEN RunSync("clear", args, _clearSync(d_tile))
    ELSE IF ~args.callback
    THEN RejectData("clear", args, "last argument must be a callback function")
    ELSE QueueData("clear", args, NoDataBaton)

\* the work function of the call c writes the buffer of d
Writes(c) ==
    \/ c.op \in { "setData", "addData" } /\ ~LengthIsZero(c.args.data)
    \/ c.op = "clear"

\* the work function of the call c reads or writes the buffer of d
Touches(c) == Writes(c) \/ (c.op = "getData" /\ c.baton.compress) \/ c.op = "render"

\* two work functions that run at once on d, one of them writing: a data race
Races(c1, c2) == (Writes(c1) /\ Touches(c2)) \/ (Writes(c2) /\ Touches(c1))

Working(k) == d_calls[k].pc = "working"

\* a pool that keeps the work of a tile apart from other work on it
WorkMayStartExclusive(k) ==
    /\ d_calls[k].pc = "queued"
    /\ \A j \in 1..Len(d_calls) : ~Working(j)

\* uv_queue_work: a thread of the pool takes the request whenever it is
\* queued; nothing looks at what else is at work on closure->d
WorkMayStart(k) == d_calls[k].pc = "queued"

\* the work function of call k starts on a thread of the pool
WorkStarts(k) ==
    /\ WorkMayStart(k)
    /\ d_calls' =
         [j \in 1..Len(d_calls) |->
            IF j = k
            THEN [d_calls[k] EXCEPT
                    !.pc = "working",
                    !.raced = \E i \in 1..Len(d_calls) :
                                 Working(i) /\ Races(d_calls[k], d_calls[i])]
            ELSE IF Working(j) /\ Races(d_calls[k], d_calls[j])
            THEN [d_calls[j] EXCEPT !.raced = TRUE]
            ELSE d_calls[j]]
    /\ UNCHANGED <<d_tile, d_made, d_refs>>

\* what a work function that took part in a data race can leave: its own
\* result, or the buffer as it found it, or an emptied one
WorkOutcomes(c, serial) ==
    IF c.raced
    THEN { serial, [serial EXCEPT !.t = d_tile], [serial EXCEPT !.t = clear(d_tile)] }
    ELSE { serial }

WorkEnds(k, out) ==
    /\ d_tile' = out.t
    /\ d_calls' = [d_calls EXCEPT ![k].baton = out.baton, ![k].pc = "worked"]
    /\ UNCHANGED <<d_made, d_refs>>

\* VectorTile::EIO_SetData, on a thread of the pool
EIO_SetData(k) ==
    /\ Working(k) /\ d_calls[k].op = "setData"
    /\ \E out \in WorkOutcomes(d_calls[k],
                               SetDataWork(d_tile, d_calls[k].args.data, d_calls[k].baton)) :
          WorkEnds(k, out)

\* VectorTile::EIO_AddData
EIO_AddData(k) ==
    /\ Working(k) /\ d_calls[k].op = "addData"
    /\ \E out \in WorkOutcomes(d_calls[k],
                               AddDataWork(d_tile, d_calls[k].args.data, d_calls[k].baton)) :
          WorkEnds(k, out)

\* VectorTile::EIO_Clear
EIO_Clear(k) ==
    /\ Working(k) /\ d_calls[k].op = "clear"
    /\ \E out \in WorkOutcomes(d_calls[k], ClearWork(d_tile, d_calls[k].baton)) :
          WorkEnds(k, out)

\* VectorTile::get_data: in a data race it may compress the buffer as it
\* is, or what a writer has made of it so far
get_data(k) ==
    /\ Working(k) /\ d_calls[k].op = "getData"
    /\ \E seen \in (IF d_calls[k].raced THEN { d_tile, clear(d_tile) } ELSE { d_tile }) :
          WorkEnds(k, [t |-> d_tile, baton |-> GetDataWork(seen, d_calls[k].baton)])

\* an after function that invokes the callback for an error only
CallbackDataOnErrorOnly(k, nargs, err, data) ==
    /\ d_calls' = [d_calls EXCEPT
                     ![k].cb = IF err # ""
                               THEN [calls |-> d_calls[k].cb.calls + 1, nargs |-> nargs,
                                     err |-> err, data |-> data]
                               ELSE d_calls[k].cb,
                     ![k].pc = "done"]
    /\ d_refs' = d_refs - 1
    /\ UNCHANGED d_made

\* the callback of call k is invoked, the reference on d is given back
CallbackData(k, nargs, err, data) ==
    /\ d_calls' = [d_calls EXCEPT
                     ![k].cb = [calls |-> d_calls[k].cb.calls + 1, nargs |-> nargs,
                                err |-> err, data |-> data],
                     ![k].pc = "done"]
    /\ d_refs' = d_refs - 1
    /\ UNCHANGED d_made

\* EIO_AfterSetData, EIO_AfterAddData and EIO_AfterClear, on the main thread
AfterData(k) ==
    /\ d_calls[k].pc = "worked"
    /\ IF d_calls[k].baton.error
       THEN CallbackData(k, 1, d_calls[k].baton.error_name, NoBytes)
       ELSE CallbackData(k, 1, "", NoBytes)
    /\ UNCHANGED d_tile

\* VectorTile::EIO_AfterSetData
EIO_AfterSetData(k) == d_calls[k].op = "setData" /\ AfterData(k)

\* VectorTile::EIO_AfterAddData
EIO_AfterAddData(k) == d_calls[k].op = "addData" /\ AfterData(k)

\* VectorTile::EIO_AfterClear
EIO_AfterClear(k) == d_calls[k].op = "clear" /\ AfterData(k)

\* after_get_data reads the buffer of d on the main thread, and moves it out
\* with release: a data race with a work function that writes it
AfterRaces(k) ==
    \E j \in 1..Len(d_calls) : Working(j) /\ Writes(d_calls[j])

\* VectorTile::after_get_data, on the main thread
after_get_data(k) ==
    /\ d_calls[k].op = "getData" /\ d_calls[k].pc = "worked"
    /\ \E seen \in (IF AfterRaces(k) THEN { d_tile, clear(d_tile) } ELSE { d_tile }) :
         LET out == AfterGetData(seen, d_calls[k].baton)
         IN  /\ d_tile' = IF out.t = seen THEN d_tile ELSE out.t
             /\ CallbackData(k, out.nargs, out.err, out.data)

\* the arguments of render: whether the first is a mapnik.Map, what the
\* second is ("Image", "CairoSurface", "Grid" or "other"), the options
\* ("absent", "object", "other", or "bad": an object with a value that a
\* check rejects), and whether the last is a function
RenderArgs(map, surface, options, callback) ==
    [DataArgs(NoArgument, options, NoOption, NoOption, NoString, NoGetOptions, callback)
        EXCEPT !.map = map, !.surface = surface]

\* the checks of VectorTile::render, in their order: the message thrown, or ""
RenderArgumentError(args) ==
    IF ~args.map THEN "mapnik.Map expected as first arg"
    ELSE IF args.surface = "none"
    THEN "a renderable mapnik object is expected as second arg"
    ELSE IF ~args.callback THEN "last argument must be a callback function"
    ELSE IF args.options = "other" THEN "optional third argument must be an options object"
    ELSE IF args.options = "bad" THEN "option rejected"
    ELSE IF args.surface \notin { "Image", "CairoSurface", "Grid" }
    THEN "renderable mapnik object expected as second arg"
    ELSE ""

\* VectorTile::render: the guard deletes the baton of a call that throws;
\* a call that passes is queued with its surface in the baton
render(args) ==
    IF RenderArgumentError(args) # ""
    THEN RejectData("render", args, RenderArgumentError(args))
    ELSE QueueData("render", args, NoDataBaton)

\* VectorTile::EIO_RenderTile: it reads d and draws on the surface; what
\* the renderer throws is caught into the baton
EIO_RenderTile(k) ==
    /\ Working(k) /\ d_calls[k].op = "render"
    /\ \E thrown \in BOOLEAN :
          WorkEnds(k, [t |-> d_tile,
                       baton |-> [d_calls[k].baton EXCEPT
                                    !.error = thrown,
                                    !.error_name = IF thrown THEN "render failed" ELSE ""]])

\* VectorTile::EIO_AfterRenderTile: the surface of the baton is the Image,
\* the Grid or the CairoSurface of the call
EIO_AfterRenderTile(k) ==
    /\ d_calls[k].op = "render" /\ d_calls[k].pc = "worked"
    /\ IF d_calls[k].baton.error
       THEN CallbackData(k, 1, d_calls[k].baton.error_name, NoBytes)
       ELSE IF d_calls[k].args.surface \in { "Image", "Grid", "CairoSurface" }
       THEN CallbackData(k, 2, "", NoBytes)
       ELSE /\ d_calls' = [d_calls EXCEPT ![k].pc = "done"]
            /\ d_refs' = d_refs - 1
            /\ UNCHANGED d_made
    /\ UNCHANGED d_tile

\* no VectorTile object yet
TileIdle ==
    /\ vt_built = FALSE
    /\ tile_size = 4096
    /\ buffer_size = 128
    /\ vt_thrown = FALSE

\* no hit test under way
P2PIdle ==
    /\ p2p_geom = Empty
    /\ p2p_pt = Pt(0, 0)
    /\ p2p_done = FALSE
    /\ p2p_out = p2p_result

TileInit == TileIdle /\ P2PIdle /\ QueryIdle /\ CompositeIdle /\ InfoIdle /\ DataIdle /\ AddressIdle /\ ReportIdle

\* the arguments tried: every sampled number and a non-number
SizeArgs == { Num(v) : v \in Int32Samples } \cup {NotNumber}

NewAny ==
    \E ts \in SizeArgs \cup {Absent} :
    \E bs \in SizeArgs \cup {Absent} : New(ts, bs)

SetTileSizeAny == \E v \in SizeArgs : set_tile_size(v)

SetBufferSizeAny == \E v \in SizeArgs : set_buffer_size(v)

TileNext ==
    (NewAny \/ SetTileSizeAny \/ SetBufferSizeAny) /\ UNCHANGED <<p2p_vars, query_vars, composite_vars, info_vars, report_vars, address_vars, data_vars>>

SpecTile == TileInit /\ [][TileNext]_vars

P2PInit ==
    /\ p2p_geom \in P2PGeoms
    /\ p2p_pt \in GridPoints
    /\ p2p_done = FALSE
    /\ p2p_out = p2p_result
    /\ TileIdle
    /\ QueryIdle
    /\ CompositeIdle
    /\ InfoIdle /\ DataIdle /\ AddressIdle
    /\ ReportIdle

P2PApply ==
    /\ ~p2p_done
    /\ p2p_out' = path_to_point_distance(p2p_geom, p2p_pt.x, p2p_pt.y)
    /\ p2p_done' = TRUE
    /\ UNCHANGED <<p2p_geom, p2p_pt, tile_vars, query_vars, composite_vars, info_vars, report_vars, address_vars, data_vars>>

P2PNext == P2PApply

SpecP2P == P2PInit /\ [][P2PNext]_vars

\* the lon/lat pairs queryMany is called with: up to MaxPoints of the
\* points of the diagonal and one beside it
MaxPoints == 2
LonLatPair(x, y) == [lon |-> x, lat |-> y]
ManyPoints == { LonLatPair(0, 0), LonLatPair(1, 1), LonLatPair(3, 3), LonLatPair(1, 2) }
PointLists == { <<>> } \cup SeqsUpTo(ManyPoints, MaxPoints)

\* the argument lists queryMany is called with: the well-formed ones, and
\* one of each kind that the handler rejects
QueryManyArgs ==
    { [array |-> "array", points |-> ps, options |-> "object", tolerance |-> t,
       layer |-> l, callback |-> c] :
        ps \in PointLists, t \in { Num(v) : v \in Tolerances },
        l \in { Str(n) : n \in LayerNames }, c \in BOOLEAN } \cup
    { [array |-> a, points |-> <<>>, options |-> "object", tolerance |-> Absent,
       layer |-> Str("points"), callback |-> FALSE] : a \in { "other", "item", "pair" } } \cup
    { [array |-> "array", points |-> <<LonLatPair(1, 1)>>, options |-> o, tolerance |-> t,
       layer |-> l, callback |-> TRUE] :
        o \in { "object", "other" }, t \in { Absent, NotNumber },
        l \in { NoLayer, NotString, Str(""), Str("points") } }

\* _queryMany calls forward only
ManyEnvs == { NoFailure, [NoFailure EXCEPT !.fwd_ok = FALSE] }

QueryInit ==
    /\ tile \in Tiles
    /\ q_pc = "idle"
    /\ q_call = NoCall
    /\ q_env = NoFailure
    /\ closure = NoClosure
    /\ q_ret = NoReturn
    /\ cb = NoCallback
    /\ TileIdle
    /\ P2PIdle
    /\ CompositeIdle
    /\ InfoIdle /\ DataIdle /\ AddressIdle
    /\ ReportIdle

\* one call is made on a tile
NoCallYet == q_pc = "idle" /\ q_call = NoCall /\ ~q_ret.thrown

QueryAny ==
    /\ NoCallYet
    /\ \E args \in QueryArgs : \E env \in Envs : query(args, env)
    /\ UNCHANGED <<tile_vars, p2p_vars, composite_vars, info_vars, report_vars, address_vars, data_vars>>

QueryWork == EIO_Query /\ UNCHANGED <<tile_vars, p2p_vars, composite_vars, info_vars, report_vars, address_vars, data_vars>>

QueryAfter == EIO_AfterQuery /\ UNCHANGED <<tile_vars, p2p_vars, composite_vars, info_vars, report_vars, address_vars, data_vars>>

QueryManyAny ==
    /\ NoCallYet
    /\ \E args \in QueryManyArgs : \E env \in ManyEnvs : queryMany(args, env)
    /\ UNCHANGED <<tile_vars, p2p_vars, composite_vars, info_vars, report_vars, address_vars, data_vars>>

QueryManyWork == EIO_QueryMany /\ UNCHANGED <<tile_vars, p2p_vars, composite_vars, info_vars, report_vars, address_vars, data_vars>>

QueryManyAfter == EIO_AfterQueryMany /\ UNCHANGED <<tile_vars, p2p_vars, composite_vars, info_vars, report_vars, address_vars, data_vars>>

QueryNext ==
    \/ QueryAny \/ QueryWork \/ QueryAfter
    \/ QueryManyAny \/ QueryManyWork \/ QueryManyAfter

SpecQuery == QueryInit /\ [][QueryNext]_vars

(***************************************************************************)
(* The composite calls: one call of compositeSync or of composite, with or *)
(* without a callback, on a target tile, with an array of up to MaxSources *)
(* items.  The options are all absent, or one or two of them are given.    *)
(***************************************************************************)
MaxSources == 2

SourceItems == { Vt("a"), Vt("b"), NotTile, NotObject }
SourceArrays == { <<>> } \cup SeqsUpTo(SourceItems, MaxSources)

OneOption ==
    { [NoOptions EXCEPT !.area_threshold = v] : v \in { Num(-1), Num(0), Num(5), NotNumber } } \cup
    { [NoOptions EXCEPT !.simplify_distance = v] : v \in { Num(-1), Num(0), Num(5), NotNumber } } \cup
    { [NoOptions EXCEPT !.scale = v] : v \in { Num(-10), Num(0), Num(5), Num(20), NotNumber } } \cup
    { [NoOptions EXCEPT !.scale_denominator = v] : v \in { Num(-1), Num(0), Num(10), NotNumber } } \cup
    { [NoOptions EXCEPT !.fill_type = v] :
        v \in { Num(-1), Num(0), Num(3), Num(4), Num(5), Num(256), NotNumber } } \cup
    { [NoOptions EXCEPT !.threading_mode = v] :
        v \in { Num(-1), Num(0), Num(1), Num(2), Num(3), Num(4), NotNumber } } \cup
    { [NoOptions EXCEPT !.offset_x = v] : v \in { Num(1), NotNumber } } \cup
    { [NoOptions EXCEPT !.offset_y = v] : v \in { Num(1), NotNumber } } \cup
    { [NoOptions EXCEPT !.strictly_simple = v] : v \in { "ok", "bad" } } \cup
    { [NoOptions EXCEPT !.multi_polygon_union = v] : v \in { "ok", "bad" } } \cup
    { [NoOptions EXCEPT !.reencode = v] : v \in { "ok", "bad" } } \cup
    { [NoOptions EXCEPT !.process_all_rings = v] : v \in { "ok", "bad" } } \cup
    { [NoOptions EXCEPT !.max_extent = v] : v \in { "ok", "bad", "short", "not-numbers" } } \cup
    { [NoOptions EXCEPT !.image_scaling = v] : v \in { "ok", "bad", "unknown" } } \cup
    { [NoOptions EXCEPT !.image_format = v] : v \in { "ok", "bad" } }

CompositeOptions ==
    { NoOptions } \cup OneOption \cup
    { [o EXCEPT !.scale = v] : o \in OneOption, v \in { Num(0), Num(20) } }

\* the argument lists: well-formed ones, and ones without an array or with
\* a second argument that is no object
CompositeArgs ==
    { [array |-> "array", vtiles |-> vs, options |-> "object", opts |-> o, callback |-> c] :
        vs \in SourceArrays, o \in CompositeOptions, c \in BOOLEAN } \cup
    { [array |-> "array", vtiles |-> vs, options |-> k, opts |-> NoOptions, callback |-> c] :
        vs \in SourceArrays, k \in { "absent", "other" }, c \in BOOLEAN } \cup
    { [array |-> a, vtiles |-> <<>>, options |-> "absent", opts |-> NoOptions, callback |-> c] :
        a \in { "other", "absent" }, c \in BOOLEAN }

CompositeEnvs == { [composite_ok |-> b] : b \in BOOLEAN }

CompositeInit ==
    /\ CompositeIdle
    /\ TileIdle
    /\ P2PIdle
    /\ QueryIdle
    /\ InfoIdle /\ DataIdle /\ AddressIdle
    /\ ReportIdle

\* one call is made on a target tile
NoCompositeYet ==
    c_pc = "idle" /\ c_call = NoCompositeCall /\ ~c_ret.thrown /\ c_args = NoCompositeArgs

CompositeSyncAny ==
    /\ NoCompositeYet
    /\ \E args \in CompositeArgs : \E env \in CompositeEnvs :
          ~args.callback /\ compositeSync(args, env)
    /\ UNCHANGED <<tile_vars, p2p_vars, query_vars, info_vars, report_vars, address_vars, data_vars>>

CompositeAny ==
    /\ NoCompositeYet
    /\ \E args \in CompositeArgs : \E env \in CompositeEnvs : composite(args, env)
    /\ UNCHANGED <<tile_vars, p2p_vars, query_vars, info_vars, report_vars, address_vars, data_vars>>

CompositeWork == EIO_Composite /\ UNCHANGED <<tile_vars, p2p_vars, query_vars, info_vars, report_vars, address_vars, data_vars>>

CompositeAfter == EIO_AfterComposite /\ UNCHANGED <<tile_vars, p2p_vars, query_vars, info_vars, report_vars, address_vars, data_vars>>

CompositeNext == CompositeSyncAny \/ CompositeAny \/ CompositeWork \/ CompositeAfter

SpecComposite == CompositeInit /\ [][CompositeNext]_vars

(***************************************************************************)
(* The calls of info: one call, with a buffer of up to MaxFields fields.   *)
(***************************************************************************)
MaxFields == 3

LayerVersions == { 1, 2, 3 }
LayerFields ==
    { LayerField(n, v, {}, 1) : n \in { "roads", "water", "" }, v \in LayerVersions } \cup
    { LayerField("roads", 2, { "LAYER_HAS_NO_FEATURES" }, 0) }
Fields == LayerFields \cup { UnknownField, CorruptField }

\* a field that makes the reader throw is the last one that the buffer is
\* known to hold
FieldLists ==
    { fs \in { <<>> } \cup SeqsUpTo(Fields, MaxFields) :
        \A i \in 1..(Len(fs) - 1) : fs[i].tag # "corrupt" }

InfoArgs ==
    { Buffer("none", TRUE, fs) : fs \in FieldLists } \cup
    { Buffer(c, TRUE, fs) : c \in { "gzip", "zlib" }, fs \in FieldLists } \cup
    { Buffer(c, FALSE, <<>>) : c \in { "gzip", "zlib" } } \cup
    { NoArgument, NotBuffer }

InfoInit ==
    /\ InfoIdle /\ DataIdle /\ AddressIdle
    /\ ReportIdle
    /\ TileIdle
    /\ P2PIdle
    /\ QueryIdle
    /\ CompositeIdle

InfoAny ==
    /\ ~i_done
    /\ \E arg \in InfoArgs : info(arg)
    /\ UNCHANGED <<tile_vars, p2p_vars, query_vars, composite_vars, report_vars, address_vars, data_vars>>

InfoNext == InfoAny

SpecInfo == InfoInit /\ [][InfoNext]_vars

(***************************************************************************)
(* The calls of the readers: one call of toJSON,                           *)
(* reportGeometrySimplicitySync, reportGeometryValiditySync or info on a   *)
(* tile of up to MaxTileFeatures features in one or more layers, with or   *)
(* without a field of an unknown tag at the head of the buffer, of its     *)
(* first layer or of its first feature.                                    *)
(***************************************************************************)
MaxTileFeatures == 3

\* a self-intersecting polygon, a multipolygon of two such polygons, a
\* multipolygon of two valid polygons that overlap, and a valid line that
\* crosses itself
ReportGeometries ==
    { Geometry("polygon", <<FALSE>>, FALSE, FALSE),
      Geometry("multi_polygon", <<FALSE, FALSE>>, FALSE, FALSE),
      Geometry("multi_polygon", <<TRUE, TRUE>>, FALSE, TRUE),
      Geometry("line_string", <<TRUE>>, TRUE, FALSE) }

\* the features of a tile in its order, each with its geometry and whether
\* a new layer begins with it
FeatureLists ==
    SeqsUpTo([geom : ReportGeometries, first_of_layer : BOOLEAN], MaxTileFeatures)

ReportLayerNames == << "roads", "water", "parks", "rail" >>
ReportLayerName(i) == ReportLayerNames[((i - 1) % Len(ReportLayerNames)) + 1]

\* the k-th feature of the tile
FeatureMsg(k, geom) == << ID(k + 1), TYPE(GeomTypeEnum(geom.type)), GEOMETRY(geom) >>

\* the layer messages of the features 1..n of the list
RECURSIVE LayerMsgs(_, _)
LayerMsgs(list, n) ==
    IF n = 0 THEN <<>>
    ELSE LET before == LayerMsgs(list, n - 1)
             field == FEATURES(FeatureMsg(n, list[n].geom))
         IN  IF before = <<>> \/ list[n].first_of_layer
             THEN Append(before,
                         << NAME(ReportLayerName(Len(before) + 1)), EXTENT(4096),
                            VERSION(2), field >>)
             ELSE [before EXCEPT ![Len(before)] = Append(@, field)]

\* the buffer of the list, with a field of an unknown tag where said
TileMsg(list, where) ==
    LET layers == LayerMsgs(list, Len(list))
        first_layer == layers[1]
        first_feature == first_layer[4].msg
        marked_feature == << first_feature[1], UNKNOWN, first_feature[2],
                             first_feature[3] >>
        marked_layer == IF where = "layer" THEN << UNKNOWN >> \o first_layer
                        ELSE IF where = "feature"
                        THEN [first_layer EXCEPT ![4] = FEATURES(marked_feature)]
                        ELSE first_layer
        marked == [layers EXCEPT ![1] = marked_layer]
        fields == [k \in 1..Len(marked) |-> LAYERS(marked[k])]
    IN  IF where = "tile" THEN << UNKNOWN >> \o fields ELSE fields

ReportTiles ==
    { TileMsg(list, where) : list \in FeatureLists,
                             where \in { "none", "tile", "layer", "feature" } }

JSONOptions ==
    { NoReportOptions, NotReportOptions } \cup
    { ReportOptions(NoOption, NoOption, NoOption, d) :
        d \in { NoOption, NotBoolean, Bool(TRUE), Bool(FALSE) } }

ValidityOptions ==
    { NoReportOptions, NotReportOptions } \cup
    { ReportOptions(Bool(s), Bool(l), Bool(w), NoOption) :
        s \in BOOLEAN, l \in BOOLEAN, w \in BOOLEAN } \cup
    { ReportOptions(NotBoolean, NoOption, NoOption, NoOption),
      ReportOptions(NoOption, NotBoolean, NoOption, NoOption),
      ReportOptions(NoOption, NoOption, NotBoolean, NoOption),
      ReportOptions(NoOption, NoOption, NoOption, NoOption) }

ReportInit ==
    /\ TileIdle
    /\ P2PIdle
    /\ QueryIdle
    /\ CompositeIdle
    /\ InfoIdle /\ DataIdle /\ AddressIdle
    /\ r_tile \in ReportTiles
    /\ r_call = NoReportCall
    /\ r_done = FALSE
    /\ r_ret = NoReportReturn

\* one call in a behaviour
NoReportYet == ~r_done /\ ~i_done

ReportToJSON ==
    /\ NoReportYet
    /\ \E options \in JSONOptions : toJSON(options)
    /\ UNCHANGED <<tile_vars, p2p_vars, query_vars, composite_vars, info_vars, address_vars, data_vars>>

ReportSimplicity ==
    /\ NoReportYet
    /\ reportGeometrySimplicitySync
    /\ UNCHANGED <<tile_vars, p2p_vars, query_vars, composite_vars, info_vars, address_vars, data_vars>>

ReportValidity ==
    /\ NoReportYet
    /\ \E options \in ValidityOptions : reportGeometryValiditySync(options)
    /\ UNCHANGED <<tile_vars, p2p_vars, query_vars, composite_vars, info_vars, address_vars, data_vars>>

\* info on the buffer of the tile
ReportInfo ==
    /\ NoReportYet
    /\ info(Buffer("none", TRUE, InfoFields(r_tile)))
    /\ UNCHANGED <<tile_vars, p2p_vars, query_vars, composite_vars, report_vars, address_vars, data_vars>>

ReportNext == ReportToJSON \/ ReportSimplicity \/ ReportValidity \/ ReportInfo

SpecReport == ReportInit /\ [][ReportNext]_vars

(***************************************************************************)
(* The calls of the constructor and of the setters of x, y and z: zoom     *)
(* levels up to MaxZoom and the first one at which pow(2,z) leaves int64,  *)
(* coordinates from -1 to 2^MaxZoom.                                       *)
(***************************************************************************)
MaxZoom == 2

ZoomArgs == { Num(v) : v \in (-1..MaxZoom) \cup { 63 } } \cup { NotNumber }
CoordinateArgs == { Num(v) : v \in -1..Pow2(MaxZoom) } \cup { NotNumber }

AddressInit ==
    /\ AddressIdle
    /\ TileIdle
    /\ P2PIdle
    /\ QueryIdle
    /\ CompositeIdle
    /\ InfoIdle /\ DataIdle
    /\ ReportIdle

NewZXYAny ==
    \E z \in ZoomArgs \cup { Absent } :
    \E x \in CoordinateArgs \cup { Absent } :
    \E y \in CoordinateArgs \cup { Absent } : NewZXY(z, x, y)

SetTileXAny == \E v \in CoordinateArgs : set_tile_x(v)

SetTileYAny == \E v \in CoordinateArgs : set_tile_y(v)

SetTileZAny == \E v \in ZoomArgs : set_tile_z(v)

AddressNext ==
    (NewZXYAny \/ SetTileXAny \/ SetTileYAny \/ SetTileZAny)
    /\ UNCHANGED <<tile_vars, p2p_vars, query_vars, composite_vars, info_vars, report_vars, data_vars>>

SpecAddress == AddressInit /\ [][AddressNext]_vars

(***************************************************************************)
(* The data calls: one call on a tile that holds up to two layers, with a  *)
(* buffer of up to MaxDataFields fields.                                   *)
(***************************************************************************)
MaxDataFields == 2

DataTiles ==
    { TileObject(a[1], a[2], a[3], a[4], a[5], ls, FALSE) :
        a \in { <<0, 0, 0, 4096, 128>>, <<2, 3, 1, 512, 0>> },
        ls \in { <<>>, << TileLayer("roads", 2, "tile") >>,
                 << TileLayer("roads", 2, "tile"), TileLayer("water", 1, "tile") >> } }
      \cup { TileObject(0, 0, 0, 4096, 128, << TileLayer("roads", 2, "tile") >>, TRUE) }

DataFields ==
    { LayerField("roads", 2, {}, 1), LayerField("parks", 1, {}, 1),
      LayerField("water", 3, {}, 1), LayerField("", 2, { "LAYER_HAS_NO_NAME" }, 1),
      UnknownField, CorruptField }

DataFieldLists ==
    { fs \in { <<>> } \cup SeqsUpTo(DataFields, MaxDataFields) :
        \A i \in 1..(Len(fs) - 1) : fs[i].tag # "corrupt" }

DataBuffers ==
    { Buffer("none", TRUE, fs) : fs \in DataFieldLists } \cup
    { Buffer("gzip", TRUE, fs) : fs \in { gs \in DataFieldLists : Len(gs) <= 1 } } \cup
    { Buffer("gzip", FALSE, <<>>), NotBuffer, NoArgument }

DataOptions ==
    { <<"absent", NoOption, NoOption>>, <<"other", NoOption, NoOption>>,
      <<"object", NoOption, NoOption>>, <<"object", Bool(TRUE), NoOption>>,
      <<"object", NoOption, Bool(TRUE)>>, <<"object", Bool(TRUE), Bool(TRUE)>>,
      <<"object", Bool(FALSE), Bool(FALSE)>>, <<"object", NotBoolean, NoOption>>,
      <<"object", NoOption, NotBoolean>> }

\* the arguments of setData and addData
BufferArgs(callbacks) ==
    { DataArgs(b, o[1], o[2], o[3], NoString, NoGetOptions, c) :
        b \in DataBuffers, o \in DataOptions, c \in callbacks }

\* the arguments of layer
NameArgs ==
    { DataArgs(NoArgument, "absent", NoOption, NoOption, n, NoGetOptions, FALSE) :
        n \in { NoString, NotString, Str("roads"), Str("water"), Str("parks") } }

GetOptionsSet ==
    { GetOptions(c, r, l, s) :
        c \in { NoString, Str("gzip"), Str("none"), NotString },
        r \in { NoOption, Bool(TRUE), Bool(FALSE), NotBoolean },
        l \in { Absent, Num(0), Num(9), Num(10), Num(0 - 1), NotNumber },
        s \in { NoString, Str("RLE"), Str("DEFAULT"), Str("HUFFMAN"), NotString } }
      \cup { NoGetOptions, NotGetOptions }

\* the arguments of getData
GetArgs(callbacks) ==
    { DataArgs(NoArgument, "absent", NoOption, NoOption, NoString, g, c) :
        g \in GetOptionsSet, c \in callbacks }

\* the arguments of clear
ClearArgs(callbacks) ==
    { DataArgs(NoArgument, o, NoOption, NoOption, NoString, NoGetOptions, c) :
        o \in { "absent", "other" }, c \in callbacks }

DataInit ==
    /\ d_tile \in DataTiles
    /\ d_calls = <<>>
    /\ d_made = <<>>
    /\ d_refs = 0
    /\ InfoIdle /\ AddressIdle
    /\ ReportIdle
    /\ TileIdle
    /\ P2PIdle
    /\ QueryIdle
    /\ CompositeIdle

NoDataCallYet == d_calls = <<>>

OtherThanData ==
    UNCHANGED <<tile_vars, p2p_vars, query_vars, composite_vars, info_vars, report_vars, address_vars>>

LayerAny ==
    NoDataCallYet /\ (\E args \in NameArgs : layer(args)) /\ OtherThanData

SetDataSyncAny ==
    NoDataCallYet /\ (\E args \in BufferArgs({ FALSE }) : setDataSync(args)) /\ OtherThanData

AddDataSyncAny ==
    NoDataCallYet /\ (\E args \in BufferArgs({ FALSE }) : addDataSync(args)) /\ OtherThanData

GetDataSyncAny ==
    NoDataCallYet /\ (\E args \in GetArgs({ FALSE }) : getDataSync(args)) /\ OtherThanData

ClearSyncAny ==
    NoDataCallYet /\ (\E args \in ClearArgs({ FALSE }) : clearSync(args)) /\ OtherThanData

SetDataAny ==
    NoDataCallYet /\ (\E args \in BufferArgs(BOOLEAN) : setData(args)) /\ OtherThanData

AddDataAny ==
    NoDataCallYet /\ (\E args \in BufferArgs(BOOLEAN) : addData(args)) /\ OtherThanData

GetDataAny ==
    NoDataCallYet /\ (\E args \in GetArgs(BOOLEAN) : getData(args)) /\ OtherThanData

ClearAny ==
    NoDataCallYet /\ (\E args \in ClearArgs(BOOLEAN) : VectorTile_clear(args)) /\ OtherThanData

DataWorkStarts == (\E k \in 1..Len(d_calls) : WorkStarts(k)) /\ OtherThanData
SetDataWorks == (\E k \in 1..Len(d_calls) : EIO_SetData(k)) /\ OtherThanData
AddDataWorks == (\E k \in 1..Len(d_calls) : EIO_AddData(k)) /\ OtherThanData
ClearWorks == (\E k \in 1..Len(d_calls) : EIO_Clear(k)) /\ OtherThanData
GetDataWorks == (\E k \in 1..Len(d_calls) : get_data(k)) /\ OtherThanData
AfterSetData == (\E k \in 1..Len(d_calls) : EIO_AfterSetData(k)) /\ OtherThanData
AfterAddData == (\E k \in 1..Len(d_calls) : EIO_AfterAddData(k)) /\ OtherThanData
AfterClear == (\E k \in 1..Len(d_calls) : EIO_AfterClear(k)) /\ OtherThanData
AfterGetDataRuns == (\E k \in 1..Len(d_calls) : after_get_data(k)) /\ OtherThanData

\* the pool and the loop run what is queued and what has worked
DataRuns ==
    \/ DataWorkStarts
    \/ SetDataWorks \/ AddDataWorks \/ ClearWorks \/ GetDataWorks
    \/ AfterSetData \/ AfterAddData \/ AfterClear \/ AfterGetDataRuns

DataNext ==
    \/ LayerAny
    \/ SetDataSyncAny \/ AddDataSyncAny \/ GetDataSyncAny \/ ClearSyncAny
    \/ SetDataAny \/ AddDataAny \/ GetDataAny \/ ClearAny
    \/ DataRuns

SpecData == DataInit /\ [][DataNext]_vars

(***************************************************************************)
(* Calls with a callback on one tile: up to MaxCalls calls of setData,     *)
(* addData, getData, clear and render, made while earlier ones are queued, *)
(* at work, or done.                                                       *)
(***************************************************************************)
MaxCalls == 2

AsyncTiles ==
    { TileObject(0, 0, 0, 4096, 128, ls, FALSE) :
        ls \in { <<>>, << TileLayer("roads", 2, "tile"), TileLayer("water", 1, "tile") >> } }

AsyncBuffers ==
    { Buffer("none", TRUE, << LayerField("parks", 1, {}, 1) >>),
      Buffer("none", TRUE, << LayerField("parks", 1, {}, 1), CorruptField >>),
      Buffer("none", TRUE, <<>>),
      NotBuffer }

AsyncBufferArgs ==
    { DataArgs(b, "absent", NoOption, NoOption, NoString, NoGetOptions, TRUE) :
        b \in AsyncBuffers }

AsyncGetArgs ==
    { DataArgs(NoArgument, "absent", NoOption, NoOption, NoString, g, TRUE) :
        g \in { NoGetOptions, NotGetOptions,
                GetOptions(Str("gzip"), NoOption, Absent, NoString),
                GetOptions(NoString, Bool(TRUE), Absent, NoString),
                GetOptions(Str("gzip"), Bool(TRUE), Num(9), Str("RLE")) } }

AsyncClearArgs ==
    { DataArgs(NoArgument, "absent", NoOption, NoOption, NoString, NoGetOptions, TRUE),
      DataArgs(NoArgument, "other", NoOption, NoOption, NoString, NoGetOptions, FALSE) }

AsyncRenderArgs ==
    { RenderArgs(TRUE, s, "absent", TRUE) : s \in { "Image", "CairoSurface", "Grid", "other" } }
      \cup { RenderArgs(TRUE, "Image", o, TRUE) : o \in { "object", "other", "bad" } }
      \cup { RenderArgs(FALSE, "Image", "absent", TRUE), RenderArgs(TRUE, "none", "absent", FALSE),
             RenderArgs(TRUE, "Image", "absent", FALSE) }

AsyncInit ==
    /\ d_tile \in AsyncTiles
    /\ d_calls = <<>>
    /\ d_made = <<>>
    /\ d_refs = 0
    /\ InfoIdle /\ AddressIdle
    /\ ReportIdle
    /\ TileIdle
    /\ P2PIdle
    /\ QueryIdle
    /\ CompositeIdle

MayCall == Len(d_calls) < MaxCalls

SetDataCalled == MayCall /\ (\E args \in AsyncBufferArgs : setData(args)) /\ OtherThanData
AddDataCalled == MayCall /\ (\E args \in AsyncBufferArgs : addData(args)) /\ OtherThanData
GetDataCalled == MayCall /\ (\E args \in AsyncGetArgs : getData(args)) /\ OtherThanData
ClearCalled == MayCall /\ (\E args \in AsyncClearArgs : VectorTile_clear(args)) /\ OtherThanData
RenderCalled == MayCall /\ (\E args \in AsyncRenderArgs : render(args)) /\ OtherThanData

RenderWorks == (\E k \in 1..Len(d_calls) : EIO_RenderTile(k)) /\ OtherThanData
AfterRender == (\E k \in 1..Len(d_calls) : EIO_AfterRenderTile(k)) /\ OtherThanData

\* what the pool and the loop do with the calls that are queued
AsyncRuns == DataRuns \/ RenderWorks \/ AfterRender

AsyncNext ==
    \/ SetDataCalled \/ AddDataCalled \/ GetDataCalled \/ ClearCalled \/ RenderCalled
    \/ AsyncRuns

SpecAsync == AsyncInit /\ [][AsyncNext]_vars

\* the pool runs every queued work function and the loop every after
\* function: a request that is queued is not left waiting for ever
SpecAsyncLive == SpecAsync /\ WF_vars(AsyncRuns)

(***************************************************************************)
(* C1: after any sequence of construction and tileSize / bufferSize setter *)
(* calls the tile satisfies tile_size + 2*buffer_size > 0.                 *)
(***************************************************************************)
C1_SizeInvariant == vt_built => SizeSumPositive(tile_size, buffer_size)

(***************************************************************************)
(* Definitions used by the properties of the hit test                      *)
(***************************************************************************)
Odd(n) == n % 2 = 1

\* the number of edges of the ring that pip counts for the point
Crossings(ring, pt) ==
    Cardinality({ i \in 1..(Len(ring) - 1) :
                    pip(ring[i].x, ring[i].y, ring[i+1].x, ring[i+1].y, pt.x, pt.y) })

RECURSIVE TotalCrossings(_, _, _)
TotalCrossings(poly, n, pt) ==
    IF n = 0 THEN 0 ELSE TotalCrossings(poly, n - 1, pt) + Crossings(poly[n], pt)

AllRingsValid(poly) == \A i \in 1..Len(poly) : Len(poly[i]) >= 4

StrictlyInside(pt, r) == r.x0 < pt.x /\ pt.x < r.x1 /\ r.y0 < pt.y /\ pt.y < r.y1
RectWithin(h, r) == r.x0 <= h.x0 /\ h.x1 <= r.x1 /\ r.y0 <= h.y0 /\ h.y1 <= r.y1

\* the polygon without its interior rings of fewer than 4 points
IsValidRing(ring) == Len(ring) >= 4
WithoutDegenerateInterior(poly) == <<poly[1]>> \o SelectSeq(Tail(poly), IsValidRing)

(***************************************************************************)
(* C4: on a polygon whose rings all have at least 4 points p2p_distance    *)
(* returns distance 0 exactly when the point is inside the exterior ring   *)
(* and the even-odd parity over all rings is inside, and no hit (-1)       *)
(* otherwise; a point strictly inside a hole-free rectangle yields 0 and a *)
(* point strictly inside a single hole yields no hit.                      *)
(***************************************************************************)
C4_PolygonHit ==
    (p2p_done /\ p2p_geom.type = "Polygon" /\ AllRingsValid(p2p_geom.c[1])) =>
        LET poly == p2p_geom.c[1]
            hit  == /\ Odd(Crossings(poly[1], p2p_pt))
                    /\ Odd(TotalCrossings(poly, Len(poly), p2p_pt))
        IN  /\ p2p_out.distance = (IF hit THEN ZeroDistance ELSE NoDistance)
            /\ \A r \in Rects :
                  (poly = <<RectRing(r)>> /\ StrictlyInside(p2p_pt, r))
                      => p2p_out.distance = ZeroDistance
            /\ \A r, h \in Rects :
                  (poly = <<RectRing(r), RectRing(h)>> /\ RectWithin(h, r)
                       /\ StrictlyInside(p2p_pt, h))
                      => p2p_out.distance = NoDistance

\* a point strictly inside the hole of a polygon with one hole got no hit
C4_Witness ==
    /\ p2p_done
    /\ p2p_geom = Polygon(<<RectRing(OuterRect), RectRing(HoleRect)>>)
    /\ StrictlyInside(p2p_pt, HoleRect)
    /\ p2p_out.distance = NoDistance

(***************************************************************************)
(* C6: a polygon whose exterior ring has fewer than 4 points yields no hit *)
(* for every point, and an interior ring of fewer than 4 points is         *)
(* skipped: the result is that of the polygon without it.                  *)
(***************************************************************************)
C6_DegenerateRings ==
    (p2p_done /\ p2p_geom.type = "Polygon") =>
        LET poly == p2p_geom.c[1]
        IN  /\ Len(poly[1]) < 4 => p2p_out.distance = NoDistance
            /\ p2p_out = p2p_polygon(WithoutDegenerateInterior(poly), p2p_pt.x, p2p_pt.y)

\* a polygon hit although an interior ring of 3 points has an edge that pip
\* counts for the point
C6_Witness ==
    /\ p2p_done
    /\ p2p_geom.type = "Polygon"
    /\ Len(p2p_geom.c[1]) = 2
    /\ Len(p2p_geom.c[1][2]) = 3
    /\ Odd(Crossings(p2p_geom.c[1][2], p2p_pt))
    /\ p2p_out.distance = ZeroDistance

(***************************************************************************)
(* Definitions used by the properties of the queries                       *)
(***************************************************************************)
Range(seq) == { seq[i] : i \in 1..Len(seq) }

\* a call of query has returned, or its callback has run
QueryDone == q_call.op = "query" /\ q_pc = "idle"
QueryFailed == IF q_call.async THEN cb.nargs = 1 ELSE q_ret.thrown
QueryError == IF q_call.async THEN cb.err ELSE q_ret.error
QueryResult == IF q_call.async THEN cb.result ELSE q_ret.result
QuerySucceeded == QueryDone /\ ~QueryFailed

\* a call of queryMany has returned, or its callback has run
QueryManyDone == q_call.op = "queryMany" /\ q_pc = "idle"
QueryManyFailed == IF q_call.async THEN cb.nargs = 1 ELSE q_ret.thrown
QueryManyError == IF q_call.async THEN cb.err ELSE q_ret.error
QueryManyObject == IF q_call.async THEN cb.many ELSE q_ret.many

\* the query point in the tile's frame
QueryX == q_call.lon * MercScale
QueryY == q_call.lat * MercScale

\* the names of the layers that the call scans
ScannedNames ==
    IF q_call.layer_name = "" THEN Range(tile) ELSE Range(tile) \cap { q_call.layer_name }

\* the features that the point prefilter of the layer yields
Yielded(name) ==
    Range(features_at_point(LayerData(name), Pt(QueryX, QueryY), q_call.tolerance))

\* the positions of the feature in the result
PositionsOf(name, f) ==
    { i \in 1..Len(QueryResult) :
        QueryResult[i].layer = name /\ QueryResult[i].feature = f.id }

HitDistance(f) == path_to_point_distance(f.geom, QueryX, QueryY).distance

\* the geometry of the feature of a result
GeomOf(r) == (CHOOSE f \in Range(LayerData(r.layer).features) : f.id = r.feature).geom

IsPolygonal(geom) == geom.type \in { "Polygon", "MultiPolygon" }
IsPointOrLine(geom) ==
    geom.type \in { "Point", "MultiPoint", "LineString", "MultiLineString" }

\* even-odd containment in one polygon: the exterior ring has 4 points or
\* more, and the edges counted for the point are odd in number in the
\* exterior ring and in the rings of 4 points or more together
PolygonContains(poly, pt) ==
    /\ Len(poly) >= 1
    /\ Len(poly[1]) >= 4
    /\ Odd(Crossings(poly[1], pt))
    /\ LET valid == SelectSeq(poly, IsValidRing)
       IN  Odd(TotalCrossings(valid, Len(valid), pt))

Contains(geom, pt) == \E k \in 1..Len(geom.c) : PolygonContains(geom.c[k], pt)

(***************************************************************************)
(* C2: the list that the single-point query returns is ordered by          *)
(* non-decreasing distance: r[i].distance <= r[i+1].distance for adjacent  *)
(* results, for one named layer and for all layers.                        *)
(***************************************************************************)
C2_SortedAscending ==
    QuerySucceeded =>
        \A i \in 1..(Len(QueryResult) - 1) :
            ~DistLess(QueryResult[i + 1].distance, QueryResult[i].distance)

(***************************************************************************)
(* C3: every result of the single-point query has 0 <= distance <=         *)
(* tolerance; every feature that the point prefilter of a scanned layer    *)
(* yields and whose distance d has 0 <= d <= tolerance is in the result    *)
(* exactly once; a feature with no hit or with d > tolerance is not in it. *)
(***************************************************************************)
C3_Retention ==
    QuerySucceeded =>
        LET t == q_call.tolerance
            qualifies(d) == d.n >= 0 /\ t >= 0 /\ d.n <= t * t * d.d
        IN  /\ \A i \in 1..Len(QueryResult) :
                  /\ qualifies(QueryResult[i].distance)
                  /\ QueryResult[i].layer \in ScannedNames
                  /\ \E f \in Yielded(QueryResult[i].layer) :
                        f.id = QueryResult[i].feature
            /\ \A name \in ScannedNames : \A f \in Yielded(name) :
                  IF qualifies(HitDistance(f))
                  THEN /\ Cardinality(PositionsOf(name, f)) = 1
                       /\ \A i \in PositionsOf(name, f) :
                             QueryResult[i].distance = HitDistance(f)
                  ELSE PositionsOf(name, f) = {}

\* a query returned two features or more, and left out a feature that is
\* farther than the tolerance and a feature without a hit
C3_Witness ==
    /\ QuerySucceeded
    /\ Len(QueryResult) >= 2
    /\ \E name \in ScannedNames : \E f, g \in Yielded(name) :
          /\ HitDistance(f) = NoDistance
          /\ HitDistance(g).n > q_call.tolerance * q_call.tolerance * HitDistance(g).d
          /\ PositionsOf(name, f) = {}
          /\ PositionsOf(name, g) = {}

(***************************************************************************)
(* C5: for every tolerance >= 0 a Polygon or MultiPolygon feature of a     *)
(* scanned layer is returned, with distance 0, if and only if the query    *)
(* point is contained in it; a point outside never matches.                *)
(***************************************************************************)
C5_PolygonToleranceFree ==
    (QuerySucceeded /\ q_call.tolerance >= 0) =>
        \A name \in ScannedNames : \A f \in Range(LayerData(name).features) :
            IsPolygonal(f.geom) =>
                /\ PositionsOf(name, f) # {} <=> Contains(f.geom, Pt(QueryX, QueryY))
                /\ \A i \in PositionsOf(name, f) : QueryResult[i].distance = ZeroDistance

\* at the largest tolerance a query returned the polygon that holds the
\* point and not the polygon beside it, which is nearer than the tolerance
C5_Witness ==
    /\ QuerySucceeded
    /\ q_call.tolerance = MaxTolerance
    /\ "polygons" \in ScannedNames
    /\ \E f, g \in Range(PolygonsLayer.features) :
          /\ IsPolygonal(f.geom) /\ IsPolygonal(g.geom)
          /\ PositionsOf("polygons", f) # {}
          /\ PositionsOf("polygons", g) = {}
          /\ g \in Yielded("polygons")

(***************************************************************************)
(* C7: for the same tile, query point and layer selection and tolerances   *)
(* t1 <= t2, every Point, MultiPoint, LineString or MultiLineString        *)
(* feature that the query returns at t1 is returned at t2.                 *)
(***************************************************************************)
C7_Monotone ==
    QuerySucceeded =>
        \A t1 \in Tolerances :
            t1 <= q_call.tolerance =>
                \A out \in _query(Layers(tile), q_call.lon, q_call.lat, t1,
                                  q_call.layer_name, q_env) :
                    ~out.error =>
                        \A r \in Range(out.arr) :
                            IsPointOrLine(GeomOf(r)) =>
                                \E r2 \in Range(QueryResult) :
                                    r2.layer = r.layer /\ r2.feature = r.feature

\* a query returned a line or point feature that the same query at a
\* smaller tolerance does not, and one that it does
C7_Witness ==
    /\ QuerySucceeded
    /\ \E t1 \in Tolerances :
          /\ 0 <= t1 /\ t1 < q_call.tolerance
          /\ LET small == QueryScan(Layers(tile), q_call.lon, q_call.lat, t1,
                                    q_call.layer_name, q_env)
             IN  /\ ~small.error
                 /\ \E r \in Range(small.arr) : IsPointOrLine(GeomOf(r))
                 /\ \E r2 \in Range(QueryResult) :
                       /\ IsPointOrLine(GeomOf(r2))
                       /\ \A r \in Range(small.arr) : r.feature # r2.feature

(***************************************************************************)
(* C8 as stated: the distance and the hit coordinates of every result of   *)
(* the single-point query are back-transformed from the tile's mercator    *)
(* frame into the frame of the query's lon/lat.                            *)
(***************************************************************************)
C8_DistanceBackTransformed ==
    QuerySucceeded =>
        \A r \in Range(QueryResult) :
            LET p2p == path_to_point_distance(GeomOf(r), QueryX, QueryY)
            IN  /\ r.x_hit = p2p.x_hit \div MercScale
                /\ r.y_hit = p2p.y_hit \div MercScale
                /\ r.distance = Frac(p2p.distance.n,
                                     p2p.distance.d * MercScale * MercScale)

(***************************************************************************)
(* C8 as the code has it: the hit coordinates of every result of the       *)
(* single-point query are back-transformed into the frame of the query's   *)
(* lon/lat; the distance is the one measured in the tile's mercator frame  *)
(* and is not back-transformed.                                            *)
(***************************************************************************)
C8_HitBackTransformed ==
    QuerySucceeded =>
        \A r \in Range(QueryResult) :
            LET p2p == path_to_point_distance(GeomOf(r), QueryX, QueryY)
            IN  /\ r.x_hit = p2p.x_hit \div MercScale
                /\ r.y_hit = p2p.y_hit \div MercScale
                /\ r.distance = p2p.distance

\* a query returned a feature at a distance that is not 0, with a hit point
\* that is not the origin
C8_Witness ==
    /\ QuerySucceeded
    /\ \E r \in Range(QueryResult) :
          /\ r.distance # ZeroDistance
          /\ r.x_hit > 0
          /\ r.y_hit > 0

(***************************************************************************)
(* C9: when the forward reprojection of the query point fails, or the      *)
(* backward reprojection of the hit point of a scanned feature fails, the  *)
(* query fails: a synchronous call throws and returns no list, the         *)
(* callback of an asynchronous call gets the error alone.                  *)
(***************************************************************************)
ForwardFails == tile # <<>> /\ ~q_env.fwd_ok

BackwardFails ==
    /\ tile # <<>>
    /\ q_env.fwd_ok
    /\ \E name \in ScannedNames : \E f \in Yielded(name) :
          LET p2p == path_to_point_distance(f.geom, QueryX, QueryY)
          IN  Pt(p2p.x_hit, p2p.y_hit) = q_env.back_fail

C9_ReprojectionFatal ==
    (QueryDone /\ (ForwardFails \/ BackwardFails)) =>
        /\ QueryFailed
        /\ QueryError = ReprojectError
        /\ QueryResult = <<>>
        /\ IF q_call.async
           THEN cb.calls = 1 /\ cb.nargs = 1 /\ ~q_ret.thrown
           ELSE q_ret.thrown /\ cb.calls = 0

\* the callback got the error alone although a feature scanned without a
\* failure is within the tolerance
C9_Witness ==
    /\ QueryDone
    /\ q_call.async
    /\ BackwardFails
    /\ cb.nargs = 1
    /\ \E name \in ScannedNames : \E f \in Yielded(name) :
          LET p2p == path_to_point_distance(f.geom, QueryX, QueryY)
          IN  /\ Pt(p2p.x_hit, p2p.y_hit) # q_env.back_fail
              /\ Retained(p2p, q_call.tolerance)

(***************************************************************************)
(* C10 as stated: query and queryMany reject a negative tolerance with an  *)
(* error before a layer is scanned: no result is produced and no work is   *)
(* queued.                                                                 *)
(***************************************************************************)
C10_NegativeToleranceRejected ==
    q_call.tolerance >= 0

(***************************************************************************)
(* C10 as the code has it: query and queryMany accept a negative           *)
(* tolerance: the call is held, scans or is queued as with any tolerance,  *)
(* and fails only where a reprojection fails or queryMany does not find    *)
(* its layer; otherwise query gives an empty list and queryMany gives      *)
(* empty features and hits.                                                *)
(***************************************************************************)
C10_NegativeToleranceEmpty ==
    /\ (QueryDone /\ q_call.tolerance < 0) =>
          IF QueryFailed
          THEN QueryError = ReprojectError /\ (ForwardFails \/ BackwardFails)
          ELSE QueryResult = <<>>
    /\ (QueryManyDone /\ q_call.tolerance < 0) =>
          IF QueryManyFailed
          THEN \/ QueryManyError = LayerNotFound /\ q_call.layer_name \notin Range(tile)
               \/ QueryManyError = ReprojectError /\ ~q_env.fwd_ok
          ELSE /\ QueryManyObject.features = JsArray(0, EmptyMap)
               /\ QueryManyObject.hits = JsArray(0, EmptyMap)

\* the callback of a queryMany with a negative tolerance got empty features
\* and hits for points that lie on features of the layer
C10_Witness ==
    /\ QueryManyDone
    /\ q_call.tolerance < 0
    /\ q_call.async
    /\ cb.calls = 1 /\ cb.nargs = 2
    /\ cb.many.hits.length = 0
    /\ \E i \in 1..Len(q_call.points) : \E f \in Range(LayerData(q_call.layer_name).features) :
          path_to_point_distance(f.geom, q_call.points[i].lon * MercScale,
                                 q_call.points[i].lat * MercScale).distance = ZeroDistance

(***************************************************************************)
(* Definitions used by the properties of queryMany                         *)
(***************************************************************************)
QueryManySucceeded == QueryManyDone /\ ~QueryManyFailed

ManyFeatures == LayerData(q_call.layer_name).features

\* the distance of the feature from the query point of index p
ManyDistance(f, p) ==
    path_to_point_distance(f.geom, q_call.points[p + 1].lon * MercScale,
                           q_call.points[p + 1].lat * MercScale).distance

PointIndexes == 0..(Len(q_call.points) - 1)

\* 0 <= d <= tolerance
Qualifies(d) ==
    d.n >= 0 /\ q_call.tolerance >= 0
        /\ d.n <= q_call.tolerance * q_call.tolerance * d.d

\* the features with a hit against some query point, in their order
IsHitter(f) == \E p \in PointIndexes : Qualifies(ManyDistance(f, p))
Hitters == SelectSeq(ManyFeatures, IsHitter)

\* the feature of the layer that the entry of the features array refers to
FeatureOfEntry(e) == CHOOSE f \in Range(ManyFeatures) : f.id = e.feature

(***************************************************************************)
(* C11: in the result of queryMany the keys of features are 0..n-1 in the  *)
(* order in which the features are met; a feature has an entry if and only *)
(* if it has a hit (0 <= distance <= tolerance) against some query point;  *)
(* the feature_id of every hit is a key of features, whose entry is the    *)
(* feature that made the hit.                                              *)
(***************************************************************************)
C11_DenseFeatureIds ==
    QueryManySucceeded =>
        LET F == QueryManyObject.features
            H == QueryManyObject.hits
        IN  /\ DOMAIN F.at = 0..(Len(Hitters) - 1)
            /\ F.length = Len(Hitters)
            /\ \A k \in DOMAIN F.at :
                  /\ F.at[k].feature = Hitters[k + 1].id
                  /\ F.at[k].layer = q_call.layer_name
            /\ \A p \in DOMAIN H.at : \A j \in 1..Len(H.at[p]) :
                  /\ H.at[p][j].feature_id \in DOMAIN F.at
                  /\ p \in PointIndexes
                  /\ LET f == FeatureOfEntry(F.at[H.at[p][j].feature_id])
                     IN  /\ Qualifies(ManyDistance(f, p))
                         /\ H.at[p][j].distance = ManyDistance(f, p)

\* two features have entries, and a feature met before the second of them
\* has none
C11_Witness ==
    /\ QueryManySucceeded
    /\ Len(q_call.points) = MaxPoints
    /\ Len(Hitters) >= 2
    /\ \E i \in 1..Len(ManyFeatures) :
          /\ ~IsHitter(ManyFeatures[i])
          /\ \E j \in (i + 1)..Len(ManyFeatures) : IsHitter(ManyFeatures[j])
          /\ \E j \in 1..(i - 1) : IsHitter(ManyFeatures[j])

C13_HitsLength ==
    QueryManySucceeded => QueryManyObject.hits.length = Len(q_call.points)

(***************************************************************************)
(* Definitions used by the properties of composite                         *)
(***************************************************************************)
\* the options that the handler reads from the call's arguments
GivenOptions == IF c_args.options = "object" THEN c_args.opts ELSE NoOptions

\* a call has been made, and the array and the second argument are of the
\* types that the handler asks for
CompositeCalled ==
    /\ c_args # NoCompositeArgs
    /\ c_args.array = "array"
    /\ c_args.options # "other"

\* the call threw before _composite ran: the target is as it was, nothing
\* is queued and the callback has not run
RejectedBeforeWork ==
    /\ c_ret.thrown
    /\ c_ret.error # CompositeFailed
    /\ c_call = NoCompositeCall
    /\ c_runs = 0
    /\ c_target = <<>>
    /\ c_pc = "idle"
    /\ c_baton = NoBaton
    /\ c_cb.calls = 0
    /\ c_refs.d = 0

Negative(opt) == IsNumber(opt) /\ opt.v < 0

(***************************************************************************)
(* C14: composite rejects a scale option that is not greater than zero     *)
(* with an error before any compositing is done, on the synchronous path   *)
(* and on the asynchronous path alike.                                     *)
(***************************************************************************)
C14_ScaleRejected ==
    (CompositeCalled /\ IsNumber(GivenOptions.scale) /\ GivenOptions.scale.v <= 0)
        => RejectedBeforeWork

InfoReturned == i_done /\ i_arg.kind = "Buffer" /\ ~i_thrown

IsLayer(f) == f.tag = "LAYERS"

\* the layers of the buffer, in its order
BufferLayers == SelectSeq(i_arg.fields, IsLayer)

\* the stream cannot be inflated, or a field makes the reader throw
ParseFails ==
    \/ i_arg.compression # "none" /\ ~i_arg.inflates
    \/ \E i \in 1..Len(i_arg.fields) : i_arg.fields[i].tag = "corrupt"

\* the layers array lists the layers of the buffer, each with its name and
\* its version
ListsEveryLayer ==
    /\ Len(i_out.layers) = Len(BufferLayers)
    /\ \A k \in 1..Len(BufferLayers) :
          /\ i_out.layers[k].name = BufferLayers[k].name
          /\ i_out.layers[k].has_name = (BufferLayers[k].name # "")
          /\ i_out.layers[k].version = BufferLayers[k].version
          /\ i_out.layers[k].features = BufferLayers[k].features

(***************************************************************************)
(* C16: for a buffer in which two layers have the same non-empty name,     *)
(* info returns errors = true and tile_errors with                         *)
(* TILE_REPEATED_LAYER_NAMES, and lists both layers in layers.             *)
(***************************************************************************)
C16_RepeatedLayerNames ==
    (InfoReturned /\ \E j, k \in 1..Len(BufferLayers) :
                        /\ j < k
                        /\ BufferLayers[j].name # ""
                        /\ BufferLayers[j].name = BufferLayers[k].name)
        => /\ i_out.errors
           /\ i_out.has_tile_errors
           /\ "TILE_REPEATED_LAYER_NAMES" \in i_out.tile_errors
           /\ ListsEveryLayer

\* two layers called roads, of the same version, with a third layer
\* between them
C16_Witness ==
    /\ InfoReturned
    /\ Len(i_out.layers) = 3
    /\ i_out.layers[1].name = "roads"
    /\ i_out.layers[2].name = "water"
    /\ i_out.layers[3].name = "roads"
    /\ i_out.tile_errors = { "TILE_REPEATED_LAYER_NAMES" }

(***************************************************************************)
(* C17: info reports TILE_HAS_DIFFERENT_VERSIONS, with errors = true,      *)
(* exactly when a layer after the first has a version that is not the      *)
(* version of the first layer.                                             *)
(***************************************************************************)
C17_DifferentVersions ==
    InfoReturned =>
        LET differs == \E k \in 2..Len(BufferLayers) :
                          BufferLayers[k].version # BufferLayers[1].version
        IN  /\ "TILE_HAS_DIFFERENT_VERSIONS" \in i_out.tile_errors <=> differs
            /\ differs => i_out.errors /\ i_out.has_tile_errors

\* three layers of version 2 are not reported, although 2 is not the
\* version that info starts with
C17_Witness ==
    /\ InfoReturned
    /\ Len(BufferLayers) = 3
    /\ \A k \in 1..3 : BufferLayers[k].version = 2
    /\ "TILE_HAS_DIFFERENT_VERSIONS" \notin i_out.tile_errors

(***************************************************************************)
(* C18: for every Buffer, info does not throw: a failure while inflating   *)
(* or parsing becomes the finding INVALID_PBF_BUFFER with errors = true,   *)
(* and the layers parsed before the failure stay in layers.                *)
(***************************************************************************)
C18_NeverThrows ==
    (i_done /\ i_arg.kind = "Buffer") =>
        /\ ~i_thrown
        /\ ParseFails =>
              /\ i_out.errors
              /\ i_out.has_tile_errors
              /\ "INVALID_PBF_BUFFER" \in i_out.tile_errors
              /\ ListsEveryLayer
        /\ ~ParseFails => "INVALID_PBF_BUFFER" \notin i_out.tile_errors

\* the reader threw after two layers, and both are listed
C18_Witness ==
    /\ InfoReturned
    /\ Len(i_arg.fields) = 3
    /\ i_arg.fields[3].tag = "corrupt"
    /\ Len(i_out.layers) = 2
    /\ "INVALID_PBF_BUFFER" \in i_out.tile_errors

(***************************************************************************)
(* Definitions used by the properties of the readers                       *)
(***************************************************************************)
IsKnown(f) == f.tag # "unknown"

\* the message without its fields of an unknown tag, at every depth
RECURSIVE WithoutUnknown(_)
WithoutUnknown(msg) ==
    LET kept == SelectSeq(msg, IsKnown)
    IN  [k \in 1..Len(kept) |-> [kept[k] EXCEPT !.msg = WithoutUnknown(@)]]

\* the layer messages of the tile, and the feature messages of a layer
TileLayerFields == SelectSeq(r_tile, IsLAYERS)
TileLayers == [k \in 1..Len(TileLayerFields) |-> TileLayerFields[k].msg]
FeaturesOf(layer_msg) == SelectSeq(layer_msg, IsFEATURES)
NameOf(layer_msg) == Last(SelectSeq(layer_msg, IsNAME)).str
IdOf(feature_msg) == Last(SelectSeq(feature_msg, IsID)).num
GeometryOf(feature_msg) == Last(SelectSeq(feature_msg, IsGEOMETRY)).geom

HasUnknown(msg) == \E i \in 1..Len(msg) : msg[i].tag = "unknown"
UnknownInLayer == \E k \in 1..Len(TileLayers) : HasUnknown(TileLayers[k])
UnknownInFeature ==
    \E k \in 1..Len(TileLayers) :
       \E j \in 1..Len(FeaturesOf(TileLayers[k])) :
          HasUnknown(FeaturesOf(TileLayers[k])[j].msg)

Returned(op) == r_done /\ r_call.op = op /\ ~r_ret.thrown
SplitOn == OptionValue(r_call.options.split_multi_features)
LatLonOn == OptionValue(r_call.options.lat_lon)
WebMercOn == OptionValue(r_call.options.web_merc)
DefaultMode == ~LatLonOn /\ ~WebMercOn

\* toJSON lists every layer of the buffer with its name and every feature
\* of the layer with its id, its type and its geometry
JSONListsEverything ==
    /\ Len(r_ret.value) = Len(TileLayers)
    /\ \A k \in 1..Len(TileLayers) :
          LET feats == FeaturesOf(TileLayers[k])
              obj == r_ret.value[k]
          IN  /\ obj.has_name /\ obj.name = NameOf(TileLayers[k])
              /\ obj.has_version /\ obj.has_extent
              /\ Len(obj.features) = Len(feats)
              /\ \A j \in 1..Len(feats) :
                    /\ obj.features[j].has_id
                    /\ obj.features[j].id = IdOf(feats[j].msg)
                    /\ obj.features[j].has_type
                    /\ obj.features[j].has_geometry
                    /\ obj.features[j].geometry.parts = GeometryOf(feats[j].msg).parts

(***************************************************************************)
(* C19: a field of an unknown tag never ends a read.  toJSON and           *)
(* reportGeometryValiditySync in its default mode return what they return  *)
(* for the same buffer without its unknown fields, toJSON listing every    *)
(* layer and every feature with its id and geometry; info on a buffer with *)
(* an unknown top-level field returns TILE_HAS_UNKNOWN_TAG in tile_errors  *)
(* and one entry of layers for every layer of the buffer.                  *)
(***************************************************************************)
C19_UnknownTagsSkipped ==
    /\ Returned("toJSON") =>
          /\ r_ret.value = JSONLayers(WithoutUnknown(r_tile), Len(WithoutUnknown(r_tile)),
                                      OptionValue(r_call.options.decode_geometry))
          /\ JSONListsEverything
    /\ Returned("reportGeometryValiditySync") /\ DefaultMode =>
          r_ret.value = make_not_valid_array(
                            vector_tile_not_valid(WithoutUnknown(r_tile),
                                Len(WithoutUnknown(r_tile)), SplitOn, FALSE, FALSE))
    /\ i_done /\ HasUnknown(r_tile) =>
          /\ ~i_thrown
          /\ i_out.errors
          /\ i_out.has_tile_errors
          /\ "TILE_HAS_UNKNOWN_TAG" \in i_out.tile_errors
          /\ Len(i_out.layers) = Len(TileLayers)
          /\ \A k \in 1..Len(TileLayers) :
                /\ i_out.layers[k].name = NameOf(TileLayers[k])
                /\ i_out.layers[k].features = Len(FeaturesOf(TileLayers[k]))

\* the default validity scan met an unknown tag in the first layer and
\* still reported a feature of a later layer
C19_Witness ==
    /\ Returned("reportGeometryValiditySync")
    /\ DefaultMode
    /\ HasUnknown(TileLayers[1])
    /\ Len(TileLayers) > 1
    /\ \E k \in 1..Len(r_ret.value) : r_ret.value[k].layer = NameOf(TileLayers[2])

\* the features of the layers 1..n of the tile, in layer order then feature
\* order, each with the name of its layer
RECURSIVE TileFeatures(_)
TileFeatures(n) ==
    IF n = 0 THEN <<>>
    ELSE LET feats == FeaturesOf(TileLayers[n])
         IN  TileFeatures(n - 1) \o
             [j \in 1..Len(feats) |->
                 [layer |-> NameOf(TileLayers[n]), id |-> IdOf(feats[j].msg),
                  geom |-> GeometryOf(feats[j].msg)]]

IsFalse(b) == ~b

\* what a validity report has to hold for a feature: the feature itself
\* where it is invalid, or its invalid parts one by one
InvalidOf(feature) ==
    IF SplitOn /\ IsMulti(feature.geom)
    THEN LET bad == SelectSeq(feature.geom.parts, IsFalse)
         IN  [j \in 1..Len(bad) |->
                 [layer |-> feature.layer, id |-> feature.id,
                  type |-> PartType(feature.geom), parts |-> << FALSE >>]]
    ELSE IF ~feature.geom.valid
    THEN << [layer |-> feature.layer, id |-> feature.id,
             type |-> feature.geom.type, parts |-> feature.geom.parts] >>
    ELSE <<>>

RECURSIVE InvalidOfAll(_, _)
InvalidOfAll(feats, n) ==
    IF n = 0 THEN <<>> ELSE InvalidOfAll(feats, n - 1) \o InvalidOf(feats[n])

IsNotSimple(feature) == ~feature.geom.simple

(***************************************************************************)
(* C20: the reports are exhaustive.  reportGeometrySimplicitySync returns  *)
(* one finding, with the layer and the id, for every feature of the tile   *)
(* that is not simple; reportGeometryValiditySync returns one finding for  *)
(* every invalid feature, or with split_multi_features one for every       *)
(* invalid part of a MultiLineString or MultiPolygon, with the layer and   *)
(* the geometry found invalid; both in layer order then feature order.     *)
(***************************************************************************)
C20_ReportsExhaustive ==
    LET all == TileFeatures(Len(TileLayers))
        not_simple == SelectSeq(all, IsNotSimple)
        invalid == InvalidOfAll(all, Len(all))
    IN  /\ Returned("reportGeometrySimplicitySync") =>
              /\ Len(r_ret.value) = Len(not_simple)
              /\ \A k \in 1..Len(not_simple) :
                    /\ r_ret.value[k].layer = not_simple[k].layer
                    /\ r_ret.value[k].featureId = not_simple[k].id
        /\ Returned("reportGeometryValiditySync") =>
              /\ Len(r_ret.value) = Len(invalid)
              /\ \A k \in 1..Len(invalid) :
                    /\ r_ret.value[k].layer = invalid[k].layer
                    /\ r_ret.value[k].geojson.type = invalid[k].type
                    /\ r_ret.value[k].geojson.parts = invalid[k].parts
                    /\ ~DefaultMode => r_ret.value[k].featureId = invalid[k].id

\* a split validity report with findings in two layers, two of them for the
\* two parts of one multipolygon
C20_Witness ==
    /\ Returned("reportGeometryValiditySync")
    /\ SplitOn
    /\ Len(TileLayers) > 1
    /\ \E k \in 1..Len(r_ret.value) : r_ret.value[k].layer = NameOf(TileLayers[1])
    /\ \E k \in 1..(Len(r_ret.value) - 1) :
          /\ r_ret.value[k].layer = NameOf(TileLayers[2])
          /\ r_ret.value[k + 1].layer = NameOf(TileLayers[2])
          /\ r_ret.value[k].geojson.type = "polygon"
          /\ r_ret.value[k + 1].geojson.type = "polygon"

(***************************************************************************)
(* C21: every finding of reportGeometryValiditySync names the feature it   *)
(* is about: its layer is the name of the layer of the feature and its     *)
(* featureId the id stored in the feature, whatever lat_lon, web_merc and  *)
(* split_multi_features are.                                               *)
(***************************************************************************)
C21_FindingIdentity ==
    LET all == TileFeatures(Len(TileLayers))
        invalid == InvalidOfAll(all, Len(all))
    IN  Returned("reportGeometryValiditySync") =>
           /\ Len(r_ret.value) = Len(invalid)
           /\ \A k \in 1..Len(invalid) :
                 /\ r_ret.value[k].layer = invalid[k].layer
                 /\ r_ret.value[k].featureId = invalid[k].id

(***************************************************************************)
(* C30: the address of a tile stays valid for its zoom through the         *)
(* constructor and every call of the setters of x, y and z:                *)
(* 0 <= x < 2^z and 0 <= y < 2^z.                                          *)
(***************************************************************************)
C30_AddressValid ==
    a_built =>
       /\ 0 <= a_x /\ 0 <= a_y /\ 0 <= a_z
       /\ a_z < 31 => a_x < Pow2(a_z) /\ a_y < Pow2(a_z)

(***************************************************************************)
(* C28: in the object that info returns, a layer carries                   *)
(* LAYER_HAS_UNSUPPORTED_VERSION from the version check of info only if    *)
(* the version of that layer itself is outside {1, 2}, whatever the        *)
(* versions of the layers before it and whatever its position.             *)
(* (layer_is_valid adds no such error to the layers of these buffers.)     *)
(***************************************************************************)
C28_OwnVersionTested ==
    (i_done /\ ~i_thrown) =>
        \A k \in 1..Len(i_out.layers) :
            "LAYER_HAS_UNSUPPORTED_VERSION" \in i_out.layers[k].errors
                => i_out.layers[k].version \notin { 1, 2 }

(***************************************************************************)
(* C26: reference balance of composite with a callback.  Whenever nothing  *)
(* is queued (no call yet, the call was rejected, or the callback of the   *)
(* queued call has run), no Ref() taken on the target or on a source tile  *)
(* is outstanding.                                                         *)
(***************************************************************************)
C26_RefsBalanced ==
    c_pc = "idle" => c_refs = NoRefs

(***************************************************************************)
(* The data calls.                                                         *)
(***************************************************************************)
DataCalls == { d_calls[k] : k \in 1..Len(d_calls) }

\* the call returned, or its work function ended without an error
Succeeded(c) ==
    \/ c.pc = "returned"
    \/ c.pc \in { "worked", "done" } /\ ~c.baton.error

\* the call threw, or its work function ended with an error
Failed(c) ==
    \/ c.pc = "threw"
    \/ c.pc \in { "worked", "done" } /\ c.baton.error

EmptiedBefore(c) == [c.before EXCEPT !.layers = <<>>, !.huge = FALSE]

DataLayerNames(t) == [k \in 1..Len(t.layers) |-> t.layers[k].name]

\* layer was called with the name of a layer
NamesLayer(c) == c.op = "layer" /\ c.args.name.kind = "string"

(***************************************************************************)
(* C22: layer(name) on a tile that has a layer called name returns a new   *)
(* tile with the z, x, y, tile_size and buffer_size of the source whose    *)
(* only layer is that layer of the source, and leaves the source as it     *)
(* was; when the tile has no such layer the call throws 'layer does not    *)
(* exist in vector tile' and creates no tile.                              *)
(***************************************************************************)
C22_LayerExtracted ==
    \A c \in DataCalls :
        NamesLayer(c) =>
            /\ d_tile = c.before
            /\ IF \E k \in 1..Len(c.before.layers) :
                      c.before.layers[k].name = c.args.name.v
               THEN /\ c.pc = "returned"
                    /\ Len(d_made) = 1
                    /\ d_made[1].z = c.before.z
                    /\ d_made[1].x = c.before.x
                    /\ d_made[1].y = c.before.y
                    /\ d_made[1].tile_size = c.before.tile_size
                    /\ d_made[1].buffer_size = c.before.buffer_size
                    /\ DataLayerNames(d_made[1]) = << c.args.name.v >>
                    /\ d_made[1].layers[1] \in Range(c.before.layers)
               ELSE /\ c.pc = "threw"
                    /\ c.error = "layer does not exist in vector tile"
                    /\ d_made = <<>>

\* the second layer of a tile with sizes of its own has been extracted
C22_Witness ==
    \E c \in DataCalls :
        /\ NamesLayer(c) /\ c.pc = "returned"
        /\ Len(c.before.layers) = 2
        /\ c.args.name.v = c.before.layers[2].name
        /\ c.before.tile_size = 512
        /\ Len(d_made) = 1

(***************************************************************************)
(* C23: after a successful setData or setDataSync the layers of the tile   *)
(* are those that merging the buffer into an empty tile gives, none of the *)
(* layers from before the call among them, and z, x, y, tile_size and      *)
(* buffer_size are as before; after a successful addData or addDataSync    *)
(* the layers from before the call are still there, in their places.       *)
(***************************************************************************)
C23_SetDataReplaces ==
    \A c \in DataCalls :
        /\ (c.op \in { "setData", "setDataSync" } /\ Succeeded(c)) =>
              /\ d_tile = merge_from_compressed_buffer(EmptiedBefore(c), c.args.data,
                                                       Validate(c.args), Upgrade(c.args)).t
              /\ \A k \in 1..Len(d_tile.layers) : d_tile.layers[k].from = "data"
              /\ [d_tile EXCEPT !.layers = <<>>] = EmptiedBefore(c)
        /\ (c.op \in { "addData", "addDataSync" } /\ Succeeded(c)) =>
              /\ Len(d_tile.layers) >= Len(c.before.layers)
              /\ SubSeq(d_tile.layers, 1, Len(c.before.layers)) = c.before.layers
              /\ [d_tile EXCEPT !.layers = <<>>] = [c.before EXCEPT !.layers = <<>>]

\* setData with a callback has replaced two layers by one of the buffer
C23_Witness ==
    \E c \in DataCalls :
        /\ c.op = "setData" /\ c.pc = "done" /\ c.cb.calls = 1 /\ c.cb.err = ""
        /\ Len(c.before.layers) = 2
        /\ Len(d_tile.layers) = 1
        /\ d_tile.layers[1].from = "data"

(***************************************************************************)
(* C29: a setData or setDataSync that fails leaves the layers of the tile  *)
(* as they were before the call.                                           *)
(***************************************************************************)
C29_FailedSetDataKeeps ==
    \A c \in DataCalls :
        (c.op \in { "setData", "setDataSync" } /\ Failed(c)) =>
            d_tile.layers = c.before.layers

(***************************************************************************)
(* C27: for valid options, the callback of getData is given what           *)
(* getDataSync returns on the same tile with the same options (the same    *)
(* Buffer, or the error that getDataSync throws), and the tile is left as  *)
(* getDataSync leaves it.                                                  *)
(***************************************************************************)
C27_GetDataAsSync ==
    \A c \in DataCalls :
        (c.op = "getData" /\ c.args.callback /\ c.pc = "done") =>
            LET sync == _getDataSync(c.before, c.args.get)
            IN  /\ d_tile = sync.t
                /\ IF sync.threw
                   THEN c.cb.nargs = 1 /\ c.cb.err = sync.what
                   ELSE c.cb.nargs = 2 /\ c.cb.err = "" /\ c.cb.data = sync.value

(***************************************************************************)
(* C24: the binding takes no lock and keeps no queue per tile: the work    *)
(* function of every queued call may start whatever else is at work on the *)
(* tile, so that a call that writes the tile can be at work while another  *)
(* call that reads or writes it is at work.                                *)
(***************************************************************************)
C24_NoExclusion ==
    \A k \in 1..Len(d_calls) :
        d_calls[k].pc = "queued" => ENABLED (WorkStarts(k) /\ OtherThanData)

\* a writer and another call that reads or writes the tile are at work at once
C24_Witness ==
    \E k, j \in 1..Len(d_calls) :
        /\ k # j
        /\ Working(k) /\ Working(j)
        /\ Writes(d_calls[k]) /\ Touches(d_calls[j])
        /\ d_calls[k].raced /\ d_calls[j].raced

\* what is right about the callback of the call c in every state
CallbackInOrder(c) ==
    /\ c.pc \in { "threw", "returned", "queued", "working", "worked" } => c.cb.calls = 0
    /\ c.pc = "done" =>
          /\ c.cb.calls = 1
          /\ \/ c.cb.nargs = 1 /\ c.cb.err # ""
             \/ /\ c.cb.err = ""
                /\ c.cb.nargs = IF c.op \in { "getData", "render" } THEN 2 ELSE 1

\* a callback is invoked only in the step that ends a call whose work
\* function has finished
CallbackAfterWork ==
    \A k \in 1..Len(d_calls) :
        d_calls'[k].cb.calls # d_calls[k].cb.calls =>
            d_calls[k].pc = "worked" /\ d_calls'[k].pc = "done"

=============================================================================
